---------------------------- MODULE Spec2Model ----------------------------
(***************************************************************************)
(* A model of rjni (src/src/lib.rs, src/src/ffi.rs): the bridge between    *)
(* Rust code and a Java virtual machine reached through the JNI function   *)
(* table.                                                                  *)
(*                                                                         *)
(* The library is the program; the Java runtime is its environment.  Every *)
(* JNI function the library invokes is one step of the model, and what the *)
(* runtime answers (a handle or null, an exception raised or not, the raw  *)
(* result cell) is chosen nondeterministically within what the JNI allows. *)
(* The library's own call stack is explicit (stack), because error         *)
(* translation re-enters Object::call.                                     *)
(*                                                                         *)
(* 64-bit cells are kept as four 16-bit limbs, most significant first, so  *)
(* that every width the code truncates or extends to is exact.             *)
(***************************************************************************)
EXTENDS Integers, Sequences, FiniteSets, TLC

(***************************************************************************)
(* 64-bit cells (ffi::jvalue.data: u64) as limbs <<w3, w2, w1, w0>>.       *)
(***************************************************************************)
LimbBase == 256 * 256

ZeroCell == <<0, 0, 0, 0>>

MaxCell == <<65535, 65535, 65535, 65535>>

\* The cell holding the non-negative number n < 2^31.
Limbs(n) == <<0, 0, n \div LimbBase, n % LimbBase>>

\* The 64-bit two's complement of the i32 n (Rust: n as u64, sign extension).
SignExtend(n) ==
    IF n >= 0 THEN Limbs(n)
    ELSE LET m == (n + 2147483647) + 1
         IN <<65535, 65535, 32768 + (m \div LimbBase), m % LimbBase>>

RECURSIVE Pow2(_)
Pow2(k) == IF k = 0 THEN 1 ELSE 2 * Pow2(k - 1)

\* c << k for 0 <= k < 64, the bits shifted out of the 64 dropped.
ShiftLeft(c, k) ==
    LET n == k \div 16
        p == Pow2(k % 16)
        q == Pow2(16 - (k % 16))
        m == [i \in 1..5 |-> IF i + n <= 4 THEN c[i + n] ELSE 0]
    IN [i \in 1..4 |-> (m[i] % q) * p + (m[i + 1] \div q)]

\* c >> k for 0 <= k < 64, zero filled.
ShiftRight(c, k) ==
    LET n == k \div 16
        p == Pow2(k % 16)
        q == Pow2(16 - (k % 16))
        m == [i \in 0..4 |-> IF i - n >= 1 THEN c[i - n] ELSE 0]
    IN [i \in 1..4 |-> (m[i] \div p) + (m[i - 1] % p) * q]

(***************************************************************************)
(* Rust's numeric cast `f as u64` of an f32 given by its IEEE-754 bits     *)
(* <<0, 0, hi, lo>>: truncation toward zero, saturating, NaN to 0.         *)
(***************************************************************************)
F32AsU64(bits) ==
    LET hi   == bits[3]
        sign == hi \div 32768
        exp  == (hi \div 128) % 256
        mant == (hi % 128) * LimbBase + bits[4]
        e    == exp - 127
    IN IF exp = 255
         THEN (IF mant = 0 /\ sign = 0 THEN MaxCell ELSE ZeroCell)
       ELSE IF sign = 1 \/ e < 0 THEN ZeroCell
       ELSE IF e >= 64 THEN MaxCell
       ELSE IF e >= 23 THEN ShiftLeft(Limbs(8388608 + mant), e - 23)
       ELSE Limbs((8388608 + mant) \div Pow2(23 - e))

(***************************************************************************)
(* Rust's numeric cast `f as u64` of an f64 given by its IEEE-754 bits.    *)
(***************************************************************************)
F64AsU64(bits) ==
    LET sign == bits[1] \div 32768
        exp  == (bits[1] \div 16) % 2048
        frac == <<bits[1] % 16, bits[2], bits[3], bits[4]>>
        m    == <<16 + (bits[1] % 16), bits[2], bits[3], bits[4]>>
        e    == exp - 1023
    IN IF exp = 2047
         THEN (IF frac = ZeroCell /\ sign = 0 THEN MaxCell ELSE ZeroCell)
       ELSE IF sign = 1 \/ e < 0 THEN ZeroCell
       ELSE IF e >= 64 THEN MaxCell
       ELSE IF e >= 52 THEN ShiftLeft(m, e - 52)
       ELSE ShiftRight(m, 52 - e)

(***************************************************************************)
(* Type (lib.rs:694) and Value (lib.rs:772).                               *)
(*   A Type is [t |-> tag, cls |-> class name], cls used by Object only.   *)
(*   A Value is [t |-> tag, n |-> number, w |-> cell, s |-> string]:       *)
(*     Boolean  n in {0, 1}            Byte, Short, Int  n the integer     *)
(*     Char     n the scalar value     Long    w the two's complement      *)
(*     Float    w the IEEE bits (low 32)   Double  w the IEEE bits         *)
(*     Str      s the text             Object  w the raw reference         *)
(* A string is a sequence of text fragments; \o concatenates.  The         *)
(* fragments are cut the same way everywhere ("L", a class name and ";"    *)
(* are fragments of their own), so two strings are equal exactly when      *)
(* their fragment sequences are.  An Object Value of the signature         *)
(* harness carries in s the name its class reports.                        *)
(***************************************************************************)
PrimitiveTags ==
    {"Boolean", "Byte", "Char", "Short", "Int", "Long", "Float", "Double"}

TypeTags == PrimitiveTags \cup {"Str", "Void", "Object"}

ClassNames == {"java/lang/Object", "Demo"}

Ty(tag) == [t |-> tag, cls |-> ""]

ObjectTy(name) == [t |-> "Object", cls |-> name]

\* Every Type the model passes as a return type.
Types == {Ty(tag) : tag \in TypeTags \ {"Object"}} \cup {ObjectTy(c) : c \in ClassNames}

Val(tag, n, w, s) == [t |-> tag, n |-> n, w |-> w, s |-> s]

NumVal(tag, n) == Val(tag, n, ZeroCell, <<>>)

BitsVal(tag, w) == Val(tag, 0, w, <<>>)

StrVal(s) == Val("Str", 0, ZeroCell, s)

ObjectVal(raw) == Val("Object", 0, raw, <<>>)

VoidVal == Val("Void", 0, ZeroCell, <<>>)

\* The Type tag of a Value's variant.
TypeOfValue(v) == Ty(v.t)

(***************************************************************************)
(* jvalue accessors (ffi.rs:120-130): each truncates data to its width and *)
(* reinterprets the bits.                                                  *)
(***************************************************************************)
\* data as u8, the bits kept
jz(c) == c[4] % 256

\* A variant of jb that keeps 16 bits.
jb_Wide(c) == IF c[4] >= 32768 THEN c[4] - 65536 ELSE c[4]

\* data as u8 transmuted to jbyte (i8)
jb(c) == LET u == c[4] % 256 IN IF u >= 128 THEN u - 256 ELSE u

\* data as u16 (jchar)
jc(c) == c[4]

\* data as u16 transmuted to jshort (i16)
js(c) == IF c[4] >= 32768 THEN c[4] - LimbBase ELSE c[4]

\* data as u32 transmuted to jint (i32)
ji(c) ==
    IF c[3] >= 32768
      THEN (((c[3] - 32768) * LimbBase + c[4]) - 2147483647) - 1
      ELSE c[3] * LimbBase + c[4]

\* data transmuted to jlong
jj(c) == c

\* data as u32 transmuted to jfloat: the IEEE bits
jf(c) == <<0, 0, c[3], c[4]>>

\* data transmuted to jdouble: the IEEE bits
jd(c) == c

\* data transmuted to jobject
jl(c) == c

JNI_TRUE == 1

JNI_FALSE == 0

\* A variant of to_jvalue that casts an Int to 16 bits.
to_jvalue_IntAsShort(v) ==
    CASE v.t = "Boolean" -> Limbs(v.n)
      [] v.t = "Byte"    -> SignExtend(v.n)
      [] v.t = "Char"    -> Limbs(v.n)
      [] v.t = "Short"   -> SignExtend(v.n)
      [] v.t = "Int"     -> Limbs(v.n % LimbBase)
      [] v.t = "Long"    -> v.w
      [] v.t = "Float"   -> F32AsU64(v.w)
      [] v.t = "Double"  -> F64AsU64(v.w)
      [] v.t = "Object"  -> v.w

(***************************************************************************)
(* Value::to_jvalue (lib.rs:807-835), the arms that touch no runtime       *)
(* state: every primitive is cast numerically with `v as u64`.  Str and    *)
(* Void are handled by the step that encodes an argument.                  *)
(***************************************************************************)
to_jvalue(v) ==
    CASE v.t = "Boolean" -> Limbs(v.n)
      [] v.t = "Byte"    -> SignExtend(v.n)
      [] v.t = "Char"    -> Limbs(v.n)
      [] v.t = "Short"   -> SignExtend(v.n)
      [] v.t = "Int"     -> SignExtend(v.n)
      [] v.t = "Long"    -> v.w
      [] v.t = "Float"   -> F32AsU64(v.w)
      [] v.t = "Double"  -> F64AsU64(v.w)
      [] v.t = "Object"  -> v.w

\* A variant of from_jvalue whose Void arm reads the cell as an int.
from_jvalue_VoidFromCell(c, kind) ==
    CASE kind.t = "Boolean" -> NumVal("Boolean", IF jz(c) = JNI_TRUE THEN 1 ELSE 0)
      [] kind.t = "Byte"    -> NumVal("Byte", jb(c))
      [] kind.t = "Char"    -> NumVal("Char", jc(c))
      [] kind.t = "Short"   -> NumVal("Short", js(c))
      [] kind.t = "Int"     -> NumVal("Int", ji(c))
      [] kind.t = "Long"    -> BitsVal("Long", jj(c))
      [] kind.t = "Float"   -> BitsVal("Float", jf(c))
      [] kind.t = "Double"  -> BitsVal("Double", jd(c))
      [] kind.t = "Void"    -> NumVal("Int", ji(c))
      [] kind.t = "Object"  -> ObjectVal(jl(c))

(***************************************************************************)
(* Value::from_jvalue (lib.rs:838-864), the arms that touch no runtime     *)
(* state.  The Str arm reads the string through convert_string and is a    *)
(* step of the machine.  char::from_u32_unchecked keeps the 16 bits as     *)
(* they are, also when they are a surrogate.                               *)
(***************************************************************************)
from_jvalue(c, kind) ==
    CASE kind.t = "Boolean" -> NumVal("Boolean", IF jz(c) = JNI_TRUE THEN 1 ELSE 0)
      [] kind.t = "Byte"    -> NumVal("Byte", jb(c))
      [] kind.t = "Char"    -> NumVal("Char", jc(c))
      [] kind.t = "Short"   -> NumVal("Short", js(c))
      [] kind.t = "Int"     -> NumVal("Int", ji(c))
      [] kind.t = "Long"    -> BitsVal("Long", jj(c))
      [] kind.t = "Float"   -> BitsVal("Float", jf(c))
      [] kind.t = "Double"  -> BitsVal("Double", jd(c))
      [] kind.t = "Void"    -> VoidVal
      [] kind.t = "Object"  -> ObjectVal(jl(c))

(***************************************************************************)
(* The JNI function table, ffi::JNINativeInterface (ffi.rs:170-454): one   *)
(* pointer-sized slot per field, in declaration order.                     *)
(***************************************************************************)
JNINativeInterface == <<
    "reserved0", "reserved1", "reserved2", "reserved3", "GetVersion",
    "DefineClass", "FindClass", "FromReflectedMethod",
    "FromReflectedField", "ToReflectedMethod", "GetSuperclass",
    "IsAssignableFrom", "ToReflectedField", "Throw", "ThrowNew",
    "ExceptionOccurred", "ExceptionDescribe", "ExceptionClear",
    "FatalError", "PushLocalFrame", "PopLocalFrame", "NewGlobalRef",
    "DeleteGlobalRef", "DeleteLocalRef", "IsSameObject", "NewLocalRef",
    "EnsureLocalCapacity", "AllocObject", "NewObject", "NewObjectV",
    "NewObjectA", "GetObjectClass", "IsInstanceOf", "GetMethodID",
    "CallObjectMethod", "CallObjectMethodV", "CallObjectMethodA",
    "CallBooleanMethod", "CallBooleanMethodV", "CallBooleanMethodA",
    "CallByteMethod", "CallByteMethodV", "CallByteMethodA",
    "CallCharMethod", "CallCharMethodV", "CallCharMethodA",
    "CallShortMethod", "CallShortMethodV", "CallShortMethodA",
    "CallIntMethod", "CallIntMethodV", "CallIntMethodA", "CallLongMethod",
    "CallLongMethodV", "CallLongMethodA", "CallFloatMethod",
    "CallFloatMethodV", "CallFloatMethodA", "CallDoubleMethod",
    "CallDoubleMethodV", "CallDoubleMethodA", "CallVoidMethod",
    "CallVoidMethodV", "CallVoidMethodA", "CallNonvirtualObjectMethod",
    "CallNonvirtualObjectMethodV", "CallNonvirtualObjectMethodA",
    "CallNonvirtualBooleanMethod", "CallNonvirtualBooleanMethodV",
    "CallNonvirtualBooleanMethodA", "CallNonvirtualByteMethod",
    "CallNonvirtualByteMethodV", "CallNonvirtualByteMethodA",
    "CallNonvirtualCharMethod", "CallNonvirtualCharMethodV",
    "CallNonvirtualCharMethodA", "CallNonvirtualShortMethod",
    "CallNonvirtualShortMethodV", "CallNonvirtualShortMethodA",
    "CallNonvirtualIntMethod", "CallNonvirtualIntMethodV",
    "CallNonvirtualIntMethodA", "CallNonvirtualLongMethod",
    "CallNonvirtualLongMethodV", "CallNonvirtualLongMethodA",
    "CallNonvirtualFloatMethod", "CallNonvirtualFloatMethodV",
    "CallNonvirtualFloatMethodA", "CallNonvirtualDoubleMethod",
    "CallNonvirtualDoubleMethodV", "CallNonvirtualDoubleMethodA",
    "CallNonvirtualVoidMethod", "CallNonvirtualVoidMethodV",
    "CallNonvirtualVoidMethodA", "GetFieldID", "GetObjectField",
    "GetBooleanField", "GetByteField", "GetCharField", "GetShortField",
    "GetIntField", "GetLongField", "GetFloatField", "GetDoubleField",
    "SetObjectField", "SetBooleanField", "SetByteField", "SetCharField",
    "SetShortField", "SetIntField", "SetLongField", "SetFloatField",
    "SetDoubleField", "GetStaticMethodID", "CallStaticObjectMethod",
    "CallStaticObjectMethodV", "CallStaticObjectMethodA",
    "CallStaticBooleanMethod", "CallStaticBooleanMethodV",
    "CallStaticBooleanMethodA", "CallStaticByteMethod",
    "CallStaticByteMethodV", "CallStaticByteMethodA",
    "CallStaticCharMethod", "CallStaticCharMethodV",
    "CallStaticCharMethodA", "CallStaticShortMethod",
    "CallStaticShortMethodV", "CallStaticShortMethodA",
    "CallStaticIntMethod", "CallStaticIntMethodV", "CallStaticIntMethodA",
    "CallStaticLongMethod", "CallStaticLongMethodV",
    "CallStaticLongMethodA", "CallStaticFloatMethod",
    "CallStaticFloatMethodV", "CallStaticFloatMethodA",
    "CallStaticDoubleMethod", "CallStaticDoubleMethodV",
    "CallStaticDoubleMethodA", "CallStaticVoidMethod",
    "CallStaticVoidMethodV", "CallStaticVoidMethodA", "GetStaticFieldID",
    "GetStaticObjectField", "GetStaticBooleanField", "GetStaticByteField",
    "GetStaticCharField", "GetStaticShortField", "GetStaticIntField",
    "GetStaticLongField", "GetStaticFloatField", "GetStaticDoubleField",
    "SetStaticObjectField", "SetStaticBooleanField", "SetStaticByteField",
    "SetStaticCharField", "SetStaticShortField", "SetStaticIntField",
    "SetStaticLongField", "SetStaticFloatField", "SetStaticDoubleField",
    "NewString", "GetStringLength", "GetStringChars", "ReleaseStringChars",
    "NewStringUTF", "GetStringUTFLength", "GetStringUTFChars",
    "ReleaseStringUTFChars", "GetArrayLength", "NewObjectArray",
    "GetObjectArrayElement", "SetObjectArrayElement", "NewBooleanArray",
    "NewByteArray", "NewCharArray", "NewShortArray", "NewIntArray",
    "NewLongArray", "NewFloatArray", "NewDoubleArray",
    "GetBooleanArrayElements", "GetByteArrayElements",
    "GetCharArrayElements", "GetShortArrayElements", "GetIntArrayElements",
    "GetLongArrayElements", "GetFloatArrayElements",
    "GetDoubleArrayElements", "ReleaseBooleanArrayElements",
    "ReleaseByteArrayElements", "ReleaseCharArrayElements",
    "ReleaseShortArrayElements", "ReleaseIntArrayElements",
    "ReleaseLongArrayElements", "ReleaseFloatArrayElements",
    "ReleaseDoubleArrayElements", "GetBooleanArrayRegion",
    "GetByteArrayRegion", "GetCharArrayRegion", "GetShortArrayRegion",
    "GetIntArrayRegion", "GetLongArrayRegion", "GetFloatArrayRegion",
    "GetDoubleArrayRegion", "SetBooleanArrayRegion", "SetByteArrayRegion",
    "SetCharArrayRegion", "SetShortArrayRegion", "SetIntArrayRegion",
    "SetLongArrayRegion", "SetFloatArrayRegion", "SetDoubleArrayRegion",
    "RegisterNatives", "UnregisterNatives", "MonitorEnter", "MonitorExit",
    "GetJavaVM", "GetStringRegion", "GetStringUTFRegion",
    "GetPrimitiveArrayCritical", "ReleasePrimitiveArrayCritical",
    "GetStringCritical", "ReleaseStringCritical", "NewWeakGlobalRef",
    "DeleteWeakGlobalRef", "ExceptionCheck", "NewDirectByteBuffer",
    "GetDirectBufferAddress", "GetDirectBufferCapacity",
    "GetObjectRefType"
    >>

\* The slot of a field of the table.
SlotOf(field) ==
    CHOOSE k \in 1..Len(JNINativeInterface) : JNINativeInterface[k] = field

\* Type::offset (lib.rs:735-750)
\* Type::offset with Short given Char's ordinal: a variant of offset under
\* which two call groups collide and one is never selected.
offset_ShortAsChar(kind) ==
    CASE kind.t = "Object"  -> 0
      [] kind.t = "Str"     -> 0
      [] kind.t = "Boolean" -> 1
      [] kind.t = "Byte"    -> 2
      [] kind.t = "Char"    -> 3
      [] kind.t = "Short"   -> 3
      [] kind.t = "Int"     -> 5
      [] kind.t = "Long"    -> 6
      [] kind.t = "Float"   -> 7
      [] kind.t = "Double"  -> 8
      [] kind.t = "Void"    -> 9

offset(kind) ==
    CASE kind.t = "Object"  -> 0
      [] kind.t = "Str"     -> 0
      [] kind.t = "Boolean" -> 1
      [] kind.t = "Byte"    -> 2
      [] kind.t = "Char"    -> 3
      [] kind.t = "Short"   -> 4
      [] kind.t = "Int"     -> 5
      [] kind.t = "Long"    -> 6
      [] kind.t = "Float"   -> 7
      [] kind.t = "Double"  -> 8
      [] kind.t = "Void"    -> 9

\* The entry selected without the stride of three: a variant of
\* DispatchEntry that lands on the plain and variadic forms.
DispatchEntry_NoStride(base, kind) == JNINativeInterface[SlotOf(base) + offset(kind)]

\* The entry point `base.offset(return_type.offset() * 3)` selects
\* (lib.rs:660-664 with base CallObjectMethodA, lib.rs:559-563 with base
\* CallStaticObjectMethodA): pointer arithmetic over MethodFn-sized slots.
DispatchEntry(base, kind) == JNINativeInterface[SlotOf(base) + offset(kind) * 3]

(***************************************************************************)
(* Results and errors.                                                     *)
(*   ExceptionInfo (lib.rs:1047)  [name, message, stack_trace]             *)
(*   Error (lib.rs:944)           [e |-> variant, some |-> whether         *)
(*                                 NotFound carries Some(info), info]      *)
(*   Result / what an operation ended in                                   *)
(*                                [kind |-> "Ok" | "Err" | "Panic" |       *)
(*                                 "Crash" | "None", val, err]             *)
(* "Panic" is a Rust panic unwinding out of the operation; "Crash" is the  *)
(* process dying inside the runtime or on a null pointer.                  *)
(***************************************************************************)
NoInfo == [name |-> <<>>, message |-> <<>>, stack_trace |-> <<>>]

Err(variant, some, info) == [e |-> variant, some |-> some, info |-> info]

NoError == Err("", FALSE, NoInfo)

Res(kind, val, err) == [kind |-> kind, val |-> val, err |-> err]

ResOk(val) == Res("Ok", val, NoError)

ResErr(err) == Res("Err", VoidVal, err)

NoRes == Res("None", VoidVal, NoError)

(***************************************************************************)
(* Handles.  A reference is the 64-bit cell that holds it; null is zero.   *)
(***************************************************************************)
Null == ZeroCell

Ref(k) == Limbs(k)

\* What the runtime hands out: the class, an object, the thrown object, a
\* string, a method id.
ClassRef == Ref(1)

ObjectRef == Ref(2)

ThrownRef == Ref(3)

StringRef == Ref(4)

MethodRef == Ref(5)

\* The raw result cells a dispatch may leave.
ResultCells == {ZeroCell, Ref(6)}

\* The classes of the exceptions the runtime raises.
NoSuchMethodError == <<"java.lang.NoSuchMethodError">>

NoClassDefFoundError == <<"java.lang.NoClassDefFoundError">>

RuntimeException == <<"java.lang.RuntimeException">>

\* The text the runtime's strings hold.
RuntimeText == <<"text">>

\* The exception-introspection functions, the only ones the JNI allows
\* while an exception is pending.
Introspection == {"ExceptionCheck", "ExceptionOccurred", "ExceptionClear"}

\* How many exceptions one operation meets: those the runtime raises in it,
\* and the one already pending when it starts.
MaxRaises == 2

(***************************************************************************)
(* State.                                                                  *)
(*   stack    the library's call stack, innermost frame last               *)
(*   pending  the runtime's pending-exception flag                         *)
(*   thrown   the class name of the pending exception                      *)
(*   ret      what the frame that returned last returned                   *)
(*   outcome  what the last top-level operation ended in                   *)
(*   held     the handles the caller holds: a Class, an Object             *)
(*   h        what happened in the current top-level operation             *)
(*   codec    the value codec driven on its own (SpecCodec)                *)
(*   ord      Type::offset driven on its own (SpecOffset)                  *)
(*   shapes   function_signature on two call shapes (SpecSignature)        *)
(*   java     the Java program of the examples, run by the runtime         *)
(*            (SpecDemo)                                                   *)
(*   vm       virtual machine creation and version probing (SpecVM)        *)
(***************************************************************************)
VARIABLES stack, pending, thrown, ret, outcome, held, h, codec, ord, shapes, java,
          vm

vars == <<stack, pending, thrown, ret, outcome, held, h, codec, ord, shapes, java,
          vm>>

Frame(fn, pc) ==
    [fn |-> fn, pc |-> pc, raw |-> Null, cls |-> Null, name |-> "",
     args |-> <<>>, rt |-> Ty("Void"), i |-> 1, id |-> Null, cell |-> Null,
     jargs |-> <<>>, acc |-> <<>>]

\* Some argument of the list is Value::Void.
HasVoid(args) == \E i \in 1..Len(args) : args[i].t = "Void"

\* The number of Value::Str among the arguments.
StrArgs(args) == Cardinality({i \in 1..Len(args) : args[i].t = "Str"})

NewOp(name) ==
    [op |-> name, ubCall |-> FALSE, raises |-> IF pending THEN 1 ELSE 0,
     threw |-> FALSE, voidArg |-> FALSE, rawZero |-> TRUE,
     fetches |-> 0, fetchedSet |-> FALSE, clears |-> 0,
     strArgs |-> 0, allocs |-> 0, buffers |-> 0,
     asked |-> FALSE, fetchAsked |-> FALSE,
     lookupNull |-> FALSE, lookupRaised |-> FALSE, lookupClean |-> FALSE,
     lookupRaw |-> Null,
     dispatched |-> FALSE, dispatchThrew |-> <<>>, queried |-> FALSE,
     entry |-> "", entryBase |-> "", entryType |-> Ty("Void")]

SigIdle == [pc |-> "idle"]

JavaIdle == [pc |-> "idle"]

VmIdle == [pc |-> "idle"]

OrdIdle == [pc |-> "idle", a |-> Ty("Void"), b |-> Ty("Void"), oa |-> 0, ob |-> 0]

CodecIdle == [pc |-> "idle", v |-> VoidVal, cell |-> ZeroCell, out |-> VoidVal]

Init ==
    /\ stack = <<>>
    /\ pending = FALSE
    /\ thrown = <<>>
    /\ ret = NoRes
    /\ outcome = NoRes
    /\ held = [class |-> Null, object |-> Null]
    /\ h = [NewOp("none") EXCEPT !.raises = 0]
    /\ codec = CodecIdle
    /\ ord = OrdIdle
    /\ shapes = SigIdle
    /\ java = JavaIdle
    /\ vm = VmIdle

Top == stack[Len(stack)]

At(fn, pc) == stack # <<>> /\ Top.fn = fn /\ Top.pc = pc

\* The caller is between two operations, and the process is alive.
Idle == stack = <<>> /\ outcome.kind \notin {"Panic", "Crash"}

\* The outermost frame is the one running.
Outermost == Len(stack) = 1

SetTop(f) == [stack EXCEPT ![Len(stack)] = f]

\* The top frame becomes f and calls callee.
Enter(f, callee) == Append(SetTop(f), callee)

\* The handles the caller holds once a top-level operation returned r.
Keep(r) ==
    IF r.kind = "Ok" /\ h.op = "class" THEN [held EXCEPT !.class = r.val.w]
    ELSE IF r.kind = "Ok" /\ h.op = "instantiate"
      THEN [held EXCEPT !.object = r.val.w]
    ELSE held

\* The top frame returns r to its caller; the outermost frame returns it to
\* the caller of the library.
Return(r) ==
    /\ stack' = SubSeq(stack, 1, Len(stack) - 1)
    /\ ret' = r
    /\ outcome' = IF Outermost THEN r ELSE outcome
    /\ held' = IF Outermost THEN Keep(r) ELSE held

\* The operation ends without returning: a panic unwinds the whole stack, a
\* crash ends the process.
Abort(kind) ==
    /\ stack' = <<>>
    /\ outcome' = Res(kind, VoidVal, NoError)
    /\ UNCHANGED <<ret, held>>

\* h after the library invoked the runtime function fn.
Invoked(fn, hh) ==
    [hh EXCEPT !.ubCall = @ \/ (pending /\ fn \notin Introspection)]

\* The runtime raises an exception of class c.
Raise(c) == pending' = TRUE /\ thrown' = c

Raised(hh) == [hh EXCEPT !.raises = @ + 1, !.threw = TRUE]

CanRaise == h.raises < MaxRaises

\* JavaVM::has_exception (lib.rs:394-396), on the flag ExceptionCheck reads.
\* The query with its comparison inverted: a variant of has_exception.
has_exception_Inverted(flag) == (IF flag THEN JNI_TRUE ELSE JNI_FALSE) = JNI_FALSE

has_exception(flag) == (IF flag THEN JNI_TRUE ELSE JNI_FALSE) = JNI_TRUE

(***************************************************************************)
(* Signature fragments.                                                    *)
(***************************************************************************)
\* Type::signature with Long given Int's code: a variant of TypeSignature.
TypeSignature_LongAsInt(kind) ==
    CASE kind.t = "Boolean" -> <<"Z">>
      [] kind.t = "Byte"    -> <<"B">>
      [] kind.t = "Char"    -> <<"C">>
      [] kind.t = "Short"   -> <<"S">>
      [] kind.t = "Int"     -> <<"I">>
      [] kind.t = "Long"    -> <<"I">>
      [] kind.t = "Float"   -> <<"F">>
      [] kind.t = "Double"  -> <<"D">>
      [] kind.t = "Str"     -> <<"L", "java/lang/String", ";">>
      [] kind.t = "Void"    -> <<"V">>
      [] kind.t = "Object"  -> <<"L">>

\* Type::signature (lib.rs:716-731)
TypeSignature(kind) ==
    CASE kind.t = "Boolean" -> <<"Z">>
      [] kind.t = "Byte"    -> <<"B">>
      [] kind.t = "Char"    -> <<"C">>
      [] kind.t = "Short"   -> <<"S">>
      [] kind.t = "Int"     -> <<"I">>
      [] kind.t = "Long"    -> <<"J">>
      [] kind.t = "Float"   -> <<"F">>
      [] kind.t = "Double"  -> <<"D">>
      [] kind.t = "Str"     -> <<"L", "java/lang/String", ";">>
      [] kind.t = "Void"    -> <<"V">>
      [] kind.t = "Object"  -> <<"L">>

\* Value::signature (lib.rs:788-803)
ValueSignature(v) ==
    CASE v.t = "Boolean" -> <<"Z">>
      [] v.t = "Byte"    -> <<"B">>
      [] v.t = "Char"    -> <<"C">>
      [] v.t = "Short"   -> <<"S">>
      [] v.t = "Int"     -> <<"I">>
      [] v.t = "Long"    -> <<"J">>
      [] v.t = "Float"   -> <<"F">>
      [] v.t = "Double"  -> <<"D">>
      [] v.t = "Str"     -> <<"L", "java/lang/String", ";">>
      [] v.t = "Void"    -> <<"V">>
      [] v.t = "Object"  -> <<"L">>

\* The fragments of args[i..k].
RECURSIVE ArgCodes(_, _, _)
ArgCodes(args, i, k) ==
    IF i > k THEN <<>> ELSE ValueSignature(args[i]) \o ArgCodes(args, i + 1, k)

\* The first object argument at or after i, 0 when there is none.
NextObject(args, i) ==
    LET S == {k \in i..Len(args) : args[k].t = "Object"}
    IN IF S = {} THEN 0 ELSE CHOOSE k \in S : \A m \in S : k <= m

\* The return type's part without the closing ";" of an object type: a
\* variant of ReturnCode.
ReturnCode_NoTerminator(kind) ==
    IF kind.t = "Object" THEN TypeSignature(kind) \o <<kind.cls>>
    ELSE TypeSignature(kind)

\* The return type's part of function_signature (lib.rs:903-908)
ReturnCode(kind) ==
    IF kind.t = "Object" THEN TypeSignature(kind) \o <<kind.cls, ";">>
    ELSE TypeSignature(kind)

\* The argument part of function_signature (lib.rs:887-898), the name of
\* an object's class being the one the runtime reported for it.
RECURSIVE ArgSignature(_, _)
ArgSignature(args, i) ==
    IF i > Len(args) THEN <<>>
    ELSE ValueSignature(args[i])
           \o (IF args[i].t = "Object" THEN args[i].s \o <<";">> ELSE <<>>)
           \o ArgSignature(args, i + 1)

\* function_signature (lib.rs:880-911) as a function of the arguments, the
\* names the runtime reports for the object arguments, and the return type.
function_signature(args, kind) ==
    <<"(">> \o ArgSignature(args, 1) \o <<")">> \o ReturnCode(kind)

(***************************************************************************)
(* The operations the caller starts.                                       *)
(***************************************************************************)
\* The argument lists the caller passes; o is the Object it holds.
ArgLists(o) ==
    {<<>>, <<NumVal("Int", 5)>>, <<StrVal(<<"s">>)>>, <<VoidVal>>,
     <<StrVal(<<"s">>), VoidVal>>, <<NumVal("Int", 1), NumVal("Int", 9)>>}
    \cup (IF o = Null THEN {} ELSE {<<ObjectVal(o)>>})

\* The (arguments, return type) pairs of the calls the caller makes: every
\* return type without arguments, every argument list returning Int.
Calls(o) ==
    {<<(<<>>), kind>> : kind \in Types} \cup {<<a, Ty("Int")>> : a \in ArgLists(o)}

MethodNames == {"current"}

SignatureFrame(args, kind) ==
    [Frame("function_signature", "scan") EXCEPT
        !.args = args, !.rt = kind, !.acc = <<"(">>]

\* JavaVM::class (lib.rs:376-379)
BeginClass ==
    /\ Idle
    /\ stack' = <<[Frame("class", "FindClass") EXCEPT !.name = "Demo"]>>
    /\ h' = NewOp("class")
    /\ outcome' = NoRes
    /\ ret' = NoRes
    /\ UNCHANGED <<pending, thrown, held, codec, ord, shapes, java, vm>>

\* Class::name (lib.rs:431-433)
BeginName ==
    /\ Idle
    /\ held.class # Null
    /\ stack' = <<[Frame("name", "ret") EXCEPT !.raw = held.class],
                  [Frame("push_name", "GetMethodID") EXCEPT !.raw = held.class]>>
    /\ h' = NewOp("name")
    /\ outcome' = NoRes
    /\ ret' = NoRes
    /\ UNCHANGED <<pending, thrown, held, codec, ord, shapes, java, vm>>

\* Class::instantiate (lib.rs:480-485)
BeginInstantiate ==
    /\ Idle
    /\ held.class # Null
    /\ \E args \in ArgLists(held.object) :
         /\ stack' = <<[Frame("instantiate", "GetMethodID") EXCEPT
                           !.raw = held.class, !.cls = held.class,
                        !.name = "<init>", !.args = args],
                       SignatureFrame(args, Ty("Void"))>>
         /\ h' = [NewOp("instantiate") EXCEPT !.voidArg = HasVoid(args),
                                                 !.strArgs = StrArgs(args)]
    /\ outcome' = NoRes
    /\ ret' = NoRes
    /\ UNCHANGED <<pending, thrown, held, codec, ord, shapes, java, vm>>

\* Class::call_static (lib.rs:530-536)
BeginCallStatic ==
    /\ Idle
    /\ held.class # Null
    /\ \E c \in Calls(held.object), m \in MethodNames :
         /\ stack' = <<[Frame("call_static", "GetStaticMethodID") EXCEPT
                           !.raw = held.class, !.cls = held.class,
                           !.name = m, !.args = c[1], !.rt = c[2]],
                       SignatureFrame(c[1], c[2])>>
         /\ h' = [NewOp("call_static") EXCEPT !.voidArg = HasVoid(c[1]),
                                                 !.strArgs = StrArgs(c[1])]
    /\ outcome' = NoRes
    /\ ret' = NoRes
    /\ UNCHANGED <<pending, thrown, held, codec, ord, shapes, java, vm>>

\* Object::call (lib.rs:630-632)
BeginCall ==
    /\ Idle
    /\ held.object # Null
    /\ \E c \in Calls(held.object), m \in MethodNames :
         /\ stack' = <<[Frame("call", "GetObjectClass") EXCEPT
                           !.raw = held.object, !.name = m,
                           !.args = c[1], !.rt = c[2]]>>
         /\ h' = [NewOp("call") EXCEPT !.voidArg = HasVoid(c[1]),
                                          !.strArgs = StrArgs(c[1])]
    /\ outcome' = NoRes
    /\ ret' = NoRes
    /\ UNCHANGED <<pending, thrown, held, codec, ord, shapes, java, vm>>

\* A new process, after the last one died or unwound.
Restart ==
    /\ stack = <<>>
    /\ outcome.kind \in {"Panic", "Crash"}
    /\ pending' = FALSE
    /\ thrown' = <<>>
    /\ ret' = NoRes
    /\ outcome' = NoRes
    /\ held' = [class |-> Null, object |-> Null]
    /\ h' = [NewOp("none") EXCEPT !.raises = 0]
    /\ UNCHANGED <<stack, codec, ord, shapes, java, vm>>

(***************************************************************************)
(* JavaVM::class (lib.rs:376-391)                                          *)
(***************************************************************************)
\* The Class a lookup that gave raw is wrapped in.
ClassResult(raw) == ResOk(Val("Class", 0, raw, <<>>))

ClassFindClass ==
    /\ At("class", "FindClass")
    /\ \/ /\ Return(ClassResult(ClassRef))
          /\ h' = Invoked("FindClass",
                     [h EXCEPT !.lookupRaw = ClassRef, !.lookupClean = ~pending])
          /\ UNCHANGED <<pending, thrown>>
       \/ /\ CanRaise
          /\ Raise(NoClassDefFoundError)
          /\ stack' = Enter([Top EXCEPT !.pc = "err"],
                            Frame("from_exception", "ExceptionOccurred"))
          /\ h' = Raised(Invoked("FindClass",
                     [h EXCEPT !.lookupNull = TRUE, !.lookupRaised = TRUE,
                               !.lookupClean = ~pending]))
          /\ UNCHANGED <<ret, outcome, held>>
    /\ UNCHANGED <<codec, ord, shapes, java, vm>>

ClassErr ==
    /\ At("class", "err")
    /\ Return(ResErr(ret.err))
    /\ UNCHANGED <<pending, thrown, h, codec, ord, shapes, java, vm>>

(***************************************************************************)
(* Class::name (lib.rs:431-435) and Class::push_name (lib.rs:442-465)      *)
(***************************************************************************)
NameRet ==
    /\ At("name", "ret")
    /\ Return(ResOk(StrVal(ret.val.s)))
    /\ UNCHANGED <<pending, thrown, h, codec, ord, shapes, java, vm>>

\* What a member lookup may answer: an id, null with an exception raised,
\* null with none.
LookupOutcomes == {"found", "raise", "absent"}

PushNameGetMethodID ==
    /\ At("push_name", "GetMethodID")
    /\ \E o \in LookupOutcomes :
         /\ (o = "raise") => CanRaise
         /\ IF o = "raise" THEN Raise(NoSuchMethodError)
                           ELSE UNCHANGED <<pending, thrown>>
         /\ stack' = SetTop([Top EXCEPT
                               !.pc = "CallObjectMethod",
                               !.id = IF o = "found" THEN MethodRef ELSE Null])
         /\ h' = LET h1 == Invoked("GetMethodID", h)
                 IN IF o = "raise" THEN Raised(h1) ELSE h1
    /\ UNCHANGED <<ret, outcome, held, codec, ord, shapes, java, vm>>

\* No check between the lookup and the call (lib.rs:453-464).
PushNameCallObjectMethod ==
    /\ At("push_name", "CallObjectMethod")
    /\ \E s \in {StringRef, Null}, r \in BOOLEAN :
         /\ r => CanRaise
         /\ IF r THEN Raise(RuntimeException) ELSE UNCHANGED <<pending, thrown>>
         /\ stack' = Enter([Top EXCEPT !.pc = "ret"],
                           [Frame("convert_string", "GetStringUTFChars") EXCEPT
                               !.cell = s, !.acc = Top.acc])
         /\ h' = LET h1 == Invoked("CallObjectMethod", h)
                 IN IF r THEN Raised(h1) ELSE h1
    /\ UNCHANGED <<ret, outcome, held, codec, ord, shapes, java, vm>>

PushNameRet ==
    /\ At("push_name", "ret")
    /\ Return(ResOk(StrVal(ret.val.s)))
    /\ UNCHANGED <<pending, thrown, h, codec, ord, shapes, java, vm>>

(***************************************************************************)
(* convert_string (lib.rs:915-932)                                         *)
(***************************************************************************)
ConvertGetStringUTFChars ==
    /\ At("convert_string", "GetStringUTFChars")
    /\ Top.cell # Null
    /\ \/ \* the bytes are UTF-8
          /\ stack' = SetTop([Top EXCEPT !.pc = "ReleaseStringUTFChars",
                                         !.acc = @ \o RuntimeText])
          /\ h' = [Invoked("GetStringUTFChars", h) EXCEPT !.buffers = @ + 1]
          /\ UNCHANGED <<ret, outcome, held>>
       \/ \* the bytes are not UTF-8: to_str().unwrap() panics
          /\ Abort("Panic")
          /\ h' = [Invoked("GetStringUTFChars", h) EXCEPT !.buffers = @ + 1]
       \/ \* the runtime gives no buffer: CStr::from_ptr reads through null
          /\ Abort("Crash")
          /\ h' = Invoked("GetStringUTFChars", h)
    /\ UNCHANGED <<pending, thrown, codec, ord, shapes, java, vm>>

ConvertReleaseStringUTFChars ==
    /\ At("convert_string", "ReleaseStringUTFChars")
    /\ Return(ResOk(StrVal(Top.acc)))
    /\ h' = [Invoked("ReleaseStringUTFChars", h) EXCEPT !.buffers = @ - 1]
    /\ UNCHANGED <<pending, thrown, codec, ord, shapes, java, vm>>

(***************************************************************************)
(* function_signature (lib.rs:880-911)                                     *)
(***************************************************************************)
SignatureScan ==
    /\ At("function_signature", "scan")
    /\ LET k == NextObject(Top.args, Top.i)
       IN IF k = 0
            THEN /\ Return(ResOk(StrVal(
                        Top.acc \o ArgCodes(Top.args, Top.i, Len(Top.args))
                                \o <<")">> \o ReturnCode(Top.rt))))
                 /\ UNCHANGED h
            ELSE \* obj.class().push_name(&mut sig)
                 LET sig == Top.acc \o ArgCodes(Top.args, Top.i, k)
                 IN /\ stack' = Enter([Top EXCEPT !.pc = "named", !.i = k,
                                                  !.acc = sig],
                                      [Frame("push_name", "GetMethodID") EXCEPT
                                          !.raw = ClassRef, !.acc = sig])
                    /\ h' = Invoked("GetObjectClass", h)
                    /\ UNCHANGED <<ret, outcome, held>>
    /\ UNCHANGED <<pending, thrown, codec, ord, shapes, java, vm>>

SignatureNamed ==
    /\ At("function_signature", "named")
    /\ stack' = SetTop([Top EXCEPT !.pc = "scan", !.i = @ + 1,
                                   !.acc = ret.val.s \o <<";">>])
    /\ UNCHANGED <<pending, thrown, ret, outcome, held, h, codec, ord, shapes, java, vm>>

(***************************************************************************)
(* The steps Class::instantiate (lib.rs:480-521), Class::call_static       *)
(* (lib.rs:530-572) and Object::call (lib.rs:630-673) share.               *)
(***************************************************************************)
\* The base entry each kind of call steps from (lib.rs:560, lib.rs:661).
BaseEntry(fn) ==
    IF fn = "call_static" THEN "CallStaticObjectMethodA" ELSE "CallObjectMethodA"

\* Where the frame goes once its arguments are encoded.
DispatchPc(fn) == IF fn = "instantiate" THEN "NewObjectA" ELSE "dispatch"

\* A variant of LookupStep that encodes the arguments before it looks at
\* the id.
LookupStep_EncodeFirst(fn, jni) ==
    /\ At(fn, jni)
    /\ \E o \in LookupOutcomes :
         /\ (o = "raise") => CanRaise
         /\ IF o = "raise" THEN Raise(NoSuchMethodError)
                           ELSE UNCHANGED <<pending, thrown>>
         /\ stack' =
              IF o = "found" \/ Top.args # <<>>
                THEN SetTop([Top EXCEPT
                       !.pc = IF Top.args = <<>> THEN DispatchPc(fn) ELSE "args",
                       !.id = IF o = "found" THEN MethodRef ELSE Null,
                       !.acc = ret.val.s])
                ELSE Enter([Top EXCEPT !.pc = "notfound", !.acc = ret.val.s],
                           Frame("not_found", "ExceptionCheck"))
         /\ h' = LET h1 == Invoked(jni, h)
                     h2 == IF o = "raise" THEN Raised(h1) ELSE h1
                 IN IF Outermost
                      THEN [h2 EXCEPT !.lookupNull = (o # "found"),
                                      !.lookupRaised = (o = "raise"),
                                      !.lookupClean = ~pending]
                      ELSE h2
    /\ UNCHANGED <<ret, outcome, held, codec, ord, shapes, java, vm>>

\* The member lookup and the null check after it
\* (lib.rs:486-498, lib.rs:538-550, lib.rs:639-651).
LookupStep(fn, jni) ==
    /\ At(fn, jni)
    /\ \E o \in LookupOutcomes :
         /\ (o = "raise") => CanRaise
         /\ IF o = "raise" THEN Raise(NoSuchMethodError)
                           ELSE UNCHANGED <<pending, thrown>>
         /\ stack' =
              IF o = "found"
                THEN SetTop([Top EXCEPT
                       !.pc = IF Top.args = <<>> THEN DispatchPc(fn) ELSE "args",
                       !.id = MethodRef, !.acc = ret.val.s])
                ELSE Enter([Top EXCEPT !.pc = "notfound", !.acc = ret.val.s],
                           Frame("not_found", "ExceptionCheck"))
         /\ h' = LET h1 == Invoked(jni, h)
                     h2 == IF o = "raise" THEN Raised(h1) ELSE h1
                 IN IF Outermost
                      THEN [h2 EXCEPT !.lookupNull = (o # "found"),
                                      !.lookupRaised = (o = "raise"),
                                      !.lookupClean = ~pending]
                      ELSE h2
    /\ UNCHANGED <<ret, outcome, held, codec, ord, shapes, java, vm>>

\* return Err(Error::not_found(self.jvm))
NotFoundStep(fn) ==
    /\ At(fn, "notfound")
    /\ Return(ResErr(ret.err))
    /\ UNCHANGED <<pending, thrown, h, codec, ord, shapes, java, vm>>

\* A variant of ArgsStep that encodes Value::Void as a zero cell.
ArgsStep_VoidAsZero(fn) ==
    /\ At(fn, "args")
    /\ LET a == Top.args[Top.i]
           next == IF Top.i = Len(Top.args) THEN DispatchPc(fn) ELSE "args"
       IN CASE a.t = "Str" ->
                 /\ stack' = SetTop([Top EXCEPT !.pc = next, !.i = @ + 1,
                                       !.jargs = Append(@, StringRef)])
                 /\ h' = [Invoked("NewStringUTF", h) EXCEPT !.allocs = @ + 1]
                 /\ UNCHANGED <<ret, outcome, held>>
            [] OTHER ->
                 /\ stack' = SetTop([Top EXCEPT !.pc = next, !.i = @ + 1,
                                       !.jargs = Append(@,
                                          IF a.t = "Void" THEN ZeroCell
                                          ELSE to_jvalue(a))])
                 /\ UNCHANGED <<ret, outcome, held, h>>
    /\ UNCHANGED <<pending, thrown, codec, ord, shapes, java, vm>>

\* One turn of `for arg in args { java_args.push(arg.to_jvalue(jvm)) }`
\* (lib.rs:501-505, 553-556, 654-657) with to_jvalue's Void and Str arms
\* (lib.rs:820-828).
ArgsStep(fn) ==
    /\ At(fn, "args")
    /\ LET a == Top.args[Top.i]
           next == IF Top.i = Len(Top.args) THEN DispatchPc(fn) ELSE "args"
       IN CASE a.t = "Void" ->
                 /\ Abort("Panic")
                 /\ UNCHANGED h
            [] a.t = "Str" ->
                 /\ stack' = SetTop([Top EXCEPT !.pc = next, !.i = @ + 1,
                                       !.jargs = Append(@, StringRef)])
                 /\ h' = [Invoked("NewStringUTF", h) EXCEPT !.allocs = @ + 1]
                 /\ UNCHANGED <<ret, outcome, held>>
            [] OTHER ->
                 /\ stack' = SetTop([Top EXCEPT !.pc = next, !.i = @ + 1,
                                       !.jargs = Append(@, to_jvalue(a))])
                 /\ UNCHANGED <<ret, outcome, held, h>>
    /\ UNCHANGED <<pending, thrown, codec, ord, shapes, java, vm>>

\* h after a dispatch through entry that raised (or not).
Dispatched(entry, base, kind, raised) ==
    LET h1 == Invoked(entry, [h EXCEPT !.queried = FALSE, !.entry = entry,
                                       !.entryBase = base, !.entryType = kind])
        h2 == IF raised THEN Raised(h1) ELSE h1
    IN IF Outermost
         THEN [h2 EXCEPT !.dispatched = TRUE,
                         !.dispatchThrew = IF raised THEN RuntimeException ELSE <<>>]
         ELSE h2

\* The call through the table (lib.rs:559-564, lib.rs:660-665).
DispatchStep(fn) ==
    /\ At(fn, "dispatch")
    /\ \E c \in ResultCells, r \in BOOLEAN :
         /\ r => CanRaise
         /\ IF r THEN Raise(RuntimeException) ELSE UNCHANGED <<pending, thrown>>
         /\ stack' = SetTop([Top EXCEPT !.pc = "ExceptionCheck", !.cell = c])
         /\ h' = LET d == Dispatched(DispatchEntry(BaseEntry(fn), Top.rt),
                                     BaseEntry(fn), Top.rt, r)
                 IN IF Outermost THEN [d EXCEPT !.rawZero = (c = ZeroCell)]
                                 ELSE d
    /\ UNCHANGED <<ret, outcome, held, codec, ord, shapes, java, vm>>

\* A variant of CheckStep that queries the flag only when the raw result is
\* zero, and takes a non-zero result as a success.
CheckStep_OnlyOnZero(fn) ==
    /\ At(fn, "ExceptionCheck")
    /\ IF Top.cell = ZeroCell
         THEN /\ stack' = IF has_exception(pending)
                            THEN Enter([Top EXCEPT !.pc = "err"],
                                       Frame("from_exception", "ExceptionOccurred"))
                            ELSE SetTop([Top EXCEPT !.pc = "decode"])
              /\ h' = Invoked("ExceptionCheck", [h EXCEPT !.queried = TRUE])
         ELSE /\ stack' = SetTop([Top EXCEPT !.pc = "decode"])
              /\ UNCHANGED h
    /\ UNCHANGED <<pending, thrown, ret, outcome, held, codec, ord, shapes, java, vm>>

\* if self.jvm.has_exception() { Err(Error::from_exception(..)) } else ..
\* (lib.rs:567-571, lib.rs:668-672)
CheckStep(fn) ==
    /\ At(fn, "ExceptionCheck")
    /\ stack' = IF has_exception(pending)
                  THEN Enter([Top EXCEPT !.pc = "err"],
                             Frame("from_exception", "ExceptionOccurred"))
                  ELSE SetTop([Top EXCEPT !.pc = "decode"])
    /\ h' = Invoked("ExceptionCheck", [h EXCEPT !.queried = TRUE, !.asked = TRUE])
    /\ UNCHANGED <<pending, thrown, ret, outcome, held, codec, ord, shapes, java, vm>>

ErrStep(fn) ==
    /\ At(fn, "err")
    /\ Return(ResErr(ret.err))
    /\ UNCHANGED <<pending, thrown, h, codec, ord, shapes, java, vm>>

\* Ok(Value::from_jvalue(result, &return_type, self.jvm)), the Str arm
\* reading the string through convert_string (lib.rs:857-862).
DecodeStep(fn) ==
    /\ At(fn, "decode")
    /\ IF Top.rt.t = "Str"
         THEN /\ stack' = Enter([Top EXCEPT !.pc = "str"],
                                [Frame("convert_string", "GetStringUTFChars")
                                    EXCEPT !.cell = jl(Top.cell)])
              /\ UNCHANGED <<ret, outcome, held>>
         ELSE Return(ResOk(from_jvalue(Top.cell, Top.rt)))
    /\ UNCHANGED <<pending, thrown, h, codec, ord, shapes, java, vm>>

StrStep(fn) ==
    /\ At(fn, "str")
    /\ Return(ResOk(StrVal(ret.val.s)))
    /\ UNCHANGED <<pending, thrown, h, codec, ord, shapes, java, vm>>

(***************************************************************************)
(* Class::instantiate (lib.rs:480-521)                                     *)
(***************************************************************************)
InstantiateGetMethodID == LookupStep("instantiate", "GetMethodID")

InstantiateNotFound == NotFoundStep("instantiate")

InstantiateArgs == ArgsStep("instantiate")

\* NewObjectA gives null when the constructor throws.
InstantiateNewObjectA ==
    /\ At("instantiate", "NewObjectA")
    /\ \E r \in BOOLEAN :
         /\ r => CanRaise
         /\ IF r THEN Raise(RuntimeException) ELSE UNCHANGED <<pending, thrown>>
         /\ stack' = SetTop([Top EXCEPT !.pc = "ExceptionCheck",
                                        !.cell = IF r THEN Null ELSE ObjectRef])
         /\ h' = Dispatched("NewObjectA", "NewObjectA", Top.rt, r)
    /\ UNCHANGED <<ret, outcome, held, codec, ord, shapes, java, vm>>

\* lib.rs:513-520
InstantiateCheck ==
    /\ At("instantiate", "ExceptionCheck")
    /\ IF has_exception(pending)
         THEN /\ stack' = Enter([Top EXCEPT !.pc = "err"],
                                Frame("from_exception", "ExceptionOccurred"))
              /\ UNCHANGED <<ret, outcome, held>>
         ELSE Return(ResOk(ObjectVal(Top.cell)))
    /\ h' = Invoked("ExceptionCheck", [h EXCEPT !.queried = TRUE, !.asked = TRUE])
    /\ UNCHANGED <<pending, thrown, codec, ord, shapes, java, vm>>

InstantiateErr == ErrStep("instantiate")

(***************************************************************************)
(* Class::call_static (lib.rs:530-572)                                     *)
(***************************************************************************)
CallStaticGetStaticMethodID == LookupStep("call_static", "GetStaticMethodID")

CallStaticNotFound == NotFoundStep("call_static")

CallStaticArgs == ArgsStep("call_static")

CallStaticDispatch == DispatchStep("call_static")

CallStaticCheck == CheckStep("call_static")

CallStaticErr == ErrStep("call_static")

CallStaticDecode == DecodeStep("call_static")

CallStaticStr == StrStep("call_static")

(***************************************************************************)
(* Object::call (lib.rs:630-673)                                           *)
(***************************************************************************)
\* let class = self.class(); then function_signature(args, &return_type)
CallGetObjectClass ==
    /\ At("call", "GetObjectClass")
    /\ stack' = Enter([Top EXCEPT !.pc = "GetMethodID", !.cls = ClassRef],
                      SignatureFrame(Top.args, Top.rt))
    /\ h' = Invoked("GetObjectClass", h)
    /\ UNCHANGED <<pending, thrown, ret, outcome, held, codec, ord, shapes, java, vm>>

CallGetMethodID == LookupStep("call", "GetMethodID")

CallNotFound == NotFoundStep("call")

CallArgs == ArgsStep("call")

CallDispatch == DispatchStep("call")

CallCheck == CheckStep("call")

CallErr == ErrStep("call")

CallDecode == DecodeStep("call")

CallStr == StrStep("call")

(***************************************************************************)
(* Error::not_found (lib.rs:977-987)                                       *)
(***************************************************************************)
\* What not_found makes of the error from_exception gave it.
NotFoundOf(err) ==
    IF err.e = "Exception" THEN Err("NotFound", TRUE, err.info)
    ELSE Err("NotFound", FALSE, NoInfo)

\* A variant of NotFoundCheck that translates a pending exception without
\* asking whether there is one, as JavaVM::class does.
NotFoundCheck_Unconditional ==
    /\ At("not_found", "ExceptionCheck")
    /\ stack' = Enter([Top EXCEPT !.pc = "wrap"],
                      Frame("from_exception", "ExceptionOccurred"))
    /\ UNCHANGED <<pending, thrown, ret, outcome, held, h, codec, ord, shapes, java, vm>>

NotFoundCheck ==
    /\ At("not_found", "ExceptionCheck")
    /\ IF has_exception(pending)
         THEN /\ stack' = Enter([Top EXCEPT !.pc = "wrap"],
                                Frame("from_exception", "ExceptionOccurred"))
              /\ UNCHANGED <<ret, outcome, held>>
         ELSE Return(ResErr(Err("NotFound", FALSE, NoInfo)))
    /\ h' = Invoked("ExceptionCheck", [h EXCEPT !.asked = TRUE])
    /\ UNCHANGED <<pending, thrown, codec, ord, shapes, java, vm>>

NotFoundWrap ==
    /\ At("not_found", "wrap")
    /\ Return(ResErr(NotFoundOf(ret.err)))
    /\ UNCHANGED <<pending, thrown, h, codec, ord, shapes, java, vm>>

(***************************************************************************)
(* Error::from_exception (lib.rs:991-1005)                                 *)
(***************************************************************************)
\* jvm.exception_obj() (lib.rs:404-409)
FromExceptionOccurred ==
    /\ At("from_exception", "ExceptionOccurred")
    /\ stack' = SetTop([Top EXCEPT !.pc = "ExceptionClear",
                                   !.raw = IF pending THEN ThrownRef ELSE Null,
                                   !.name = thrown])
    /\ h' = [Invoked("ExceptionOccurred", h) EXCEPT
                 !.fetches = @ + 1,
                 !.fetchedSet = IF h.fetches = 0 THEN pending ELSE @,
                 !.fetchAsked = IF h.fetches = 0 THEN h.asked ELSE @]
    /\ UNCHANGED <<pending, thrown, ret, outcome, held, codec, ord, shapes, java, vm>>

\* A variant of FromExceptionClear that invokes ExceptionClear twice.
FromExceptionClear_Twice ==
    /\ At("from_exception", "ExceptionClear")
    /\ pending' = FALSE
    /\ thrown' = <<>>
    /\ stack' = SetTop([Top EXCEPT !.pc = "GetObjectClass"])
    /\ h' = [Invoked("ExceptionClear", h) EXCEPT !.clears = @ + 2]
    /\ UNCHANGED <<ret, outcome, held, codec, ord, shapes, java, vm>>

\* jvm.clear_exception() (lib.rs:399-401)
FromExceptionClear ==
    /\ At("from_exception", "ExceptionClear")
    /\ pending' = FALSE
    /\ thrown' = <<>>
    /\ stack' = SetTop([Top EXCEPT !.pc = "GetObjectClass"])
    /\ h' = [Invoked("ExceptionClear", h) EXCEPT !.clears = @ + 1]
    /\ UNCHANGED <<ret, outcome, held, codec, ord, shapes, java, vm>>

\* obj.class().name() (lib.rs:997)
FromExceptionGetObjectClass ==
    /\ At("from_exception", "GetObjectClass")
    /\ Top.raw # Null
    /\ stack' = Enter([Top EXCEPT !.pc = "getMessage", !.cls = ClassRef],
                      [Frame("push_name", "GetMethodID") EXCEPT !.raw = ClassRef])
    /\ h' = Invoked("GetObjectClass", h)
    /\ UNCHANGED <<pending, thrown, ret, outcome, held, codec, ord, shapes, java, vm>>

\* obj.call("getMessage", &[], Type::Str) (lib.rs:1000)
FromExceptionGetMessage ==
    /\ At("from_exception", "getMessage")
    /\ stack' = Enter([Top EXCEPT !.pc = "unwrap", !.acc = ret.val.s],
                      [Frame("call", "GetObjectClass") EXCEPT
                          !.raw = Top.raw, !.name = "getMessage",
                          !.rt = Ty("Str")])
    /\ UNCHANGED <<pending, thrown, ret, outcome, held, h, codec, ord, shapes, java, vm>>

\* The Error from_exception returns for the exception of class name with
\* message message (lib.rs:1004).
FromExceptionError(name, message) == Err("OutOfMemory", FALSE, NoInfo)

\* .unwrap().as_str() (lib.rs:1000), then the value returned (lib.rs:1004)
FromExceptionUnwrap ==
    /\ At("from_exception", "unwrap")
    /\ IF ret.kind = "Err"
         THEN Abort("Panic")
         ELSE Return(ResErr(FromExceptionError(Top.acc, ret.val.s)))
    /\ UNCHANGED <<pending, thrown, h, codec, ord, shapes, java, vm>>

(***************************************************************************)
(* Undefined behaviour at the JNI boundary.                                *)
(***************************************************************************)
\* The runtime function the frame's next step invokes, "" when none.
NextCall(f) ==
    CASE f.pc = "dispatch" -> DispatchEntry(BaseEntry(f.fn), f.rt)
      [] f.pc = "scan" ->
           IF NextObject(f.args, f.i) = 0 THEN "" ELSE "GetObjectClass"
      [] f.pc = "args" -> IF f.args[f.i].t = "Str" THEN "NewStringUTF" ELSE ""
      [] f.pc \in {"FindClass", "GetMethodID", "GetStaticMethodID",
                   "CallObjectMethod", "GetStringUTFChars",
                   "ReleaseStringUTFChars", "GetObjectClass", "NewObjectA",
                   "ExceptionCheck", "ExceptionOccurred", "ExceptionClear"}
           -> f.pc
      [] OTHER -> ""

\* The next step hands the runtime a null it must not be given.
NullArgument(f) ==
    \/ f.fn = "push_name" /\ f.pc = "CallObjectMethod" /\ f.id = Null
    \/ f.fn = "convert_string" /\ f.pc = "GetStringUTFChars" /\ f.cell = Null
    \/ f.fn = "from_exception" /\ f.pc = "GetObjectClass" /\ f.raw = Null

\* A runtime function other than the introspection ones invoked while an
\* exception is pending, or given null, may end the process there; when it
\* does not, the step's own action is what happens.
Crash ==
    /\ stack # <<>>
    /\ \/ pending /\ NextCall(Top) \notin (Introspection \cup {""})
       \/ NullArgument(Top)
    /\ Abort("Crash")
    /\ h' = Invoked(NextCall(Top), h)
    /\ UNCHANGED <<pending, thrown, codec, ord, shapes, java, vm>>

Next ==
    \/ BeginClass \/ BeginName \/ BeginInstantiate \/ BeginCallStatic
    \/ BeginCall \/ Restart
    \/ ClassFindClass \/ ClassErr
    \/ NameRet \/ PushNameGetMethodID \/ PushNameCallObjectMethod \/ PushNameRet
    \/ ConvertGetStringUTFChars \/ ConvertReleaseStringUTFChars
    \/ SignatureScan \/ SignatureNamed
    \/ InstantiateGetMethodID \/ InstantiateNotFound \/ InstantiateArgs
    \/ InstantiateNewObjectA \/ InstantiateCheck \/ InstantiateErr
    \/ CallStaticGetStaticMethodID \/ CallStaticNotFound \/ CallStaticArgs
    \/ CallStaticDispatch \/ CallStaticCheck \/ CallStaticErr
    \/ CallStaticDecode \/ CallStaticStr
    \/ CallGetObjectClass \/ CallGetMethodID \/ CallNotFound \/ CallArgs
    \/ CallDispatch \/ CallCheck \/ CallErr \/ CallDecode \/ CallStr
    \/ NotFoundCheck \/ NotFoundWrap
    \/ FromExceptionOccurred \/ FromExceptionClear
    \/ FromExceptionGetObjectClass \/ FromExceptionGetMessage
    \/ FromExceptionUnwrap
    \/ Crash

Spec == Init /\ [][Next]_vars

(***************************************************************************)
(* The value codec on its own: a Value is encoded with to_jvalue and the   *)
(* cell decoded with from_jvalue under the Value's own type tag.           *)
(***************************************************************************)
MinInt == (0 - 2147483647) - 1

\* IEEE-754 single precision bit patterns, as cells.
F32(hi, lo) == BitsVal("Float", <<0, 0, hi, lo>>)

\* IEEE-754 double precision bit patterns, as cells.
F64(w3, w2, w1, w0) == BitsVal("Double", <<w3, w2, w1, w0>>)

CodecSamples ==
    {NumVal("Boolean", n) : n \in {0, 1}}
    \cup {NumVal("Byte", n) : n \in {-128, -1, 0, 1, 127}}
    \cup {NumVal("Char", n) :
            n \in {0, 65, 255, 256, 55295, 57344, 65535, 65536, 128512, 1114111}}
    \cup {NumVal("Short", n) : n \in {-32768, -1, 0, 1, 32767}}
    \cup {NumVal("Int", n) : n \in {MinInt, -1, 0, 5, 65536, 2147483647}}
    \cup {BitsVal("Long", w) :
            w \in {ZeroCell, MaxCell, <<32768, 0, 0, 0>>,
                   <<32767, 65535, 65535, 65535>>, <<0, 1, 0, 0>>}}
    \cup {F32(0, 0),          \* 0.0
          F32(16256, 0),      \* 1.0
          F32(16320, 0),      \* 1.5
          F32(49024, 0),      \* -1.0
          F32(19328, 0),      \* 16777216.0
          F32(32640, 0)}      \* +infinity
    \cup {F64(0, 0, 0, 0),        \* 0.0
          F64(16368, 0, 0, 0),    \* 1.0
          F64(16388, 0, 0, 0),    \* 2.5
          F64(49136, 0, 0, 0),    \* -1.0
          F64(17216, 0, 0, 0)}    \* 9007199254740992.0

InitCodec ==
    /\ stack = <<>>
    /\ pending = FALSE
    /\ thrown = <<>>
    /\ ret = NoRes
    /\ outcome = NoRes
    /\ held = [class |-> Null, object |-> Null]
    /\ h = [NewOp("none") EXCEPT !.raises = 0]
    /\ codec \in {[pc |-> "value", v |-> x, cell |-> ZeroCell, out |-> VoidVal] :
                    x \in CodecSamples}
    /\ ord = OrdIdle
    /\ shapes = SigIdle
    /\ java = JavaIdle
    /\ vm = VmIdle

CodecEncode ==
    /\ codec.pc = "value"
    /\ codec' = [codec EXCEPT !.pc = "cell", !.cell = to_jvalue(codec.v)]
    /\ UNCHANGED <<stack, pending, thrown, ret, outcome, held, h, ord, shapes, java, vm>>

CodecDecode ==
    /\ codec.pc = "cell"
    /\ codec' = [codec EXCEPT !.pc = "out",
                              !.out = from_jvalue(codec.cell, TypeOfValue(codec.v))]
    /\ UNCHANGED <<stack, pending, thrown, ret, outcome, held, h, ord, shapes, java, vm>>

NextCodec == CodecEncode \/ CodecDecode

SpecCodec == InitCodec /\ [][NextCodec]_vars

(***************************************************************************)
(* Decoding alone: Value::from_jvalue (lib.rs:838-852) applied to two      *)
(* cells under one primitive Type.                                         *)
(***************************************************************************)
\* What the upper 32 bits, the third limb and the lowest limb of a cell may
\* hold.
DecodeCells ==
    {<<g[1], g[2], w1, w0>> :
        g \in {<<0, 0>>, <<65535, 1>>},
        w1 \in {0, 1, 65535},
        w0 \in {0, 1, 255, 256, 257, 33023, 65535}}

PrimitiveTypes == {Ty(tag) : tag \in PrimitiveTags}

InitDecode ==
    /\ stack = <<>>
    /\ pending = FALSE
    /\ thrown = <<>>
    /\ ret = NoRes
    /\ outcome = NoRes
    /\ held = [class |-> Null, object |-> Null]
    /\ h = [NewOp("none") EXCEPT !.raises = 0]
    /\ codec \in {[pc |-> "cells", kind |-> k, a |-> x, b |-> y,
                   outa |-> VoidVal, outb |-> VoidVal] :
                    k \in PrimitiveTypes, x \in DecodeCells, y \in DecodeCells}
    /\ ord = OrdIdle
    /\ shapes = SigIdle
    /\ java = JavaIdle
    /\ vm = VmIdle

DecodeBoth ==
    /\ codec.pc = "cells"
    /\ codec' = [codec EXCEPT !.pc = "values",
                              !.outa = from_jvalue(codec.a, codec.kind),
                              !.outb = from_jvalue(codec.b, codec.kind)]
    /\ UNCHANGED <<stack, pending, thrown, ret, outcome, held, h, ord, shapes,
                   java, vm>>

NextDecode == DecodeBoth

SpecDecode == InitDecode /\ [][NextDecode]_vars

(***************************************************************************)
(* Type::offset on its own: two Types are drawn and their ordinals taken.  *)
(***************************************************************************)
InitOffset ==
    /\ stack = <<>>
    /\ pending = FALSE
    /\ thrown = <<>>
    /\ ret = NoRes
    /\ outcome = NoRes
    /\ held = [class |-> Null, object |-> Null]
    /\ h = [NewOp("none") EXCEPT !.raises = 0]
    /\ codec = CodecIdle
    /\ shapes = SigIdle
    /\ java = JavaIdle
    /\ vm = VmIdle
    /\ ord \in {[pc |-> "types", a |-> x, b |-> y, oa |-> 0, ob |-> 0] :
                  x \in Types, y \in Types}

OffsetBoth ==
    /\ ord.pc = "types"
    /\ ord' = [ord EXCEPT !.pc = "ordinals",
                          !.oa = offset(ord.a), !.ob = offset(ord.b)]
    /\ UNCHANGED <<stack, pending, thrown, ret, outcome, held, h, codec, shapes, java, vm>>

NextOffset == OffsetBoth

SpecOffset == InitOffset /\ [][NextOffset]_vars

(***************************************************************************)
(* function_signature on its own: two call shapes are drawn and the        *)
(* signature of each is built.                                             *)
(***************************************************************************)
\* An object argument whose class reports the given name (Class.getName
\* gives the dotted form).
NamedObject(name) == Val("Object", 0, ObjectRef, <<name>>)

SigArgs ==
    {NumVal("Int", 0), StrVal(<<"s">>), NamedObject("Demo"),
     NamedObject("java.lang.String")}

SigArgLists ==
    {<<>>} \cup {<<a>> : a \in SigArgs} \cup {<<a, b>> : a \in SigArgs, b \in SigArgs}

SigTypes == Types \cup {ObjectTy("java/lang/String")}

SigShapes == {[args |-> a, rt |-> k] : a \in SigArgLists, k \in SigTypes}

InitSignature ==
    /\ stack = <<>>
    /\ pending = FALSE
    /\ thrown = <<>>
    /\ ret = NoRes
    /\ outcome = NoRes
    /\ held = [class |-> Null, object |-> Null]
    /\ h = [NewOp("none") EXCEPT !.raises = 0]
    /\ codec = CodecIdle
    /\ ord = OrdIdle
    /\ java = JavaIdle
    /\ vm = VmIdle
    /\ shapes \in {[pc |-> "shapes", a |-> x, b |-> y, sa |-> <<>>, sb |-> <<>>] :
                  x \in SigShapes, y \in SigShapes}

SignatureBoth ==
    /\ shapes.pc = "shapes"
    /\ shapes' = [shapes EXCEPT !.pc = "signatures",
                          !.sa = function_signature(shapes.a.args, shapes.a.rt),
                          !.sb = function_signature(shapes.b.args, shapes.b.rt)]
    /\ UNCHANGED <<stack, pending, thrown, ret, outcome, held, h, codec, ord,
                   java, vm>>

NextSignature == SignatureBoth

SpecSignature == InitSignature /\ [][NextSignature]_vars

(***************************************************************************)
(* The examples: examples/instance.rs and examples/static.rs run against a *)
(* runtime that behaves: every lookup finds its member and nothing throws. *)
(* The Java class of the examples keeps one int per object, set by the     *)
(* constructor, incremented by the void method and read by the getter, and *)
(* has a static method adding two ints.  The runtime reads a jint argument *)
(* from the low 32 bits of its jvalue cell and returns a jint in the low   *)
(* 32 bits of the result, the upper bits being whatever the register held. *)
(* java.heap is the runtime's side (one counter per object, the k-th       *)
(* object having the reference Ref(k)); java.handles is the caller's side  *)
(* (Object.raw); java.expect is what the caller expects each counter to be.*)
(***************************************************************************)
MaxObjects == 2

MaxIncrements == 1

\* The constructor's argument, and the arguments of the static add.
DemoInts == {5, 70000, 2147483647}

AddInts == {-1, 1, 9}

\* What the upper 32 bits of a result register may hold.
DemoGarbage == {<<0, 0>>, <<65535, 1>>}

\* Java int addition: two's complement, wrapping.
Add32(a, b) ==
    LET x == SignExtend(a)
        y == SignExtend(b)
        lo == x[4] + y[4]
        hi == x[3] + y[3] + lo \div LimbBase
    IN ji(<<0, 0, hi % LimbBase, lo % LimbBase>>)

\* The jint arguments the runtime reads from the cells it is handed.
Received(jargs) == [i \in 1..Len(jargs) |-> ji(jargs[i])]

\* The cells of an argument list (lib.rs:501-505, 553-556, 654-657).
Encoded(args) == [i \in 1..Len(args) |-> to_jvalue(args[i])]

\* The result register after entry ran a method returning the int n: the
\* int entries leave n in the low 32 bits, any other entry leaves nothing
\* that can be relied on.
IntResult(entry, intEntry, n, g) ==
    IF entry = intEntry
      THEN <<g[1], g[2], SignExtend(n)[3], SignExtend(n)[4]>>
      ELSE <<g[1], g[2], g[1], g[2]>>

\* The object a reference denotes.
Deref(raw) == raw[4]

InitDemo ==
    /\ stack = <<>>
    /\ pending = FALSE
    /\ thrown = <<>>
    /\ ret = NoRes
    /\ outcome = NoRes
    /\ held = [class |-> Null, object |-> Null]
    /\ h = [NewOp("none") EXCEPT !.raises = 0]
    /\ codec = CodecIdle
    /\ ord = OrdIdle
    /\ shapes = SigIdle
    /\ vm = VmIdle
    /\ java = [pc |-> "ready", heap |-> <<>>, handles |-> <<>>,
               expect |-> <<>>, incs |-> <<>>, op |-> "none", who |-> 0,
               given |-> <<>>, recv |-> <<>>, entry |-> "",
               cell |-> ZeroCell, last |-> ResOk(VoidVal)]

\* class.instantiate(&[Value::Int(n)]) (examples/instance.rs:39-42,
\* lib.rs:480-521): NewObjectA runs the constructor on a new object and
\* returns its reference, which becomes Object.raw.
DemoInstantiate ==
    /\ java.pc = "ready"
    /\ Len(java.heap) < MaxObjects
    /\ \E n \in DemoInts :
         LET args == <<NumVal("Int", n)>>
             jargs == Encoded(args)
             obj == Ref(Len(java.heap) + 1)
         IN /\ ~has_exception(pending)
            /\ java' = [java EXCEPT !.heap = Append(@, Received(jargs)[1]),
                                    !.handles = Append(@, obj),
                                    !.expect = Append(@, n),
                                    !.incs = Append(@, 0),
                                    !.op = "instantiate",
                                    !.who = Len(java.handles) + 1,
                                    !.given = args,
                                    !.recv = Received(jargs),
                                    !.entry = "NewObjectA",
                                    !.cell = obj,
                                    !.last = ResOk(ObjectVal(obj))]
    /\ UNCHANGED <<stack, pending, thrown, ret, outcome, held, h, codec, ord,
                   shapes, vm>>

\* object.call("incrementCurrent", &[], Type::Void)
\* (examples/instance.rs:47, lib.rs:632-673).
DemoIncrement ==
    /\ java.pc = "ready"
    /\ \E k \in 1..Len(java.handles), g \in DemoGarbage :
         LET this == Deref(java.handles[k])
             entry == DispatchEntry("CallObjectMethodA", Ty("Void"))
             cell == <<g[1], g[2], g[2], g[1]>>
         IN /\ java.incs[k] < MaxIncrements
            /\ ~has_exception(pending)
            /\ java' = [java EXCEPT !.heap[this] = Add32(@, 1),
                                    !.expect[k] = Add32(@, 1),
                                    !.incs[k] = @ + 1,
                                    !.op = "increment",
                                    !.who = k,
                                    !.given = <<>>,
                                    !.recv = Received(Encoded(<<>>)),
                                    !.entry = entry,
                                    !.cell = cell,
                                    !.last = ResOk(from_jvalue(cell, Ty("Void")))]
    /\ UNCHANGED <<stack, pending, thrown, ret, outcome, held, h, codec, ord,
                   shapes, vm>>

\* object.call("getCurrent", &[], Type::Int)
\* (examples/instance.rs:52, lib.rs:632-673).
DemoCurrent ==
    /\ java.pc = "ready"
    /\ \E k \in 1..Len(java.handles), g \in DemoGarbage :
         LET this == Deref(java.handles[k])
             entry == DispatchEntry("CallObjectMethodA", Ty("Int"))
             cell == IntResult(entry, "CallIntMethodA", java.heap[this], g)
         IN /\ ~has_exception(pending)
            /\ java' = [java EXCEPT !.op = "current",
                                    !.who = k,
                                    !.given = <<>>,
                                    !.recv = Received(Encoded(<<>>)),
                                    !.entry = entry,
                                    !.cell = cell,
                                    !.last = ResOk(from_jvalue(cell, Ty("Int")))]
    /\ UNCHANGED <<stack, pending, thrown, ret, outcome, held, h, codec, ord,
                   shapes, vm>>

\* class.call_static("add", &[Value::Int(a), Value::Int(b)], Type::Int)
\* (examples/static.rs:43-47, lib.rs:532-572).
DemoAdd ==
    /\ java.pc = "ready"
    /\ \E a \in AddInts, b \in AddInts, g \in DemoGarbage :
         LET args == <<NumVal("Int", a), NumVal("Int", b)>>
             jargs == Encoded(args)
             recv == Received(jargs)
             entry == DispatchEntry("CallStaticObjectMethodA", Ty("Int"))
             cell == IntResult(entry, "CallStaticIntMethodA",
                               Add32(recv[1], recv[2]), g)
         IN /\ ~has_exception(pending)
            /\ java' = [java EXCEPT !.op = "add",
                                    !.who = 0,
                                    !.given = args,
                                    !.recv = recv,
                                    !.entry = entry,
                                    !.cell = cell,
                                    !.last = ResOk(from_jvalue(cell, Ty("Int")))]
    /\ UNCHANGED <<stack, pending, thrown, ret, outcome, held, h, codec, ord,
                   shapes, vm>>

NextDemo ==
    \/ DemoInstantiate
    \/ DemoIncrement
    \/ DemoCurrent
    \/ DemoAdd

SpecDemo == InitDemo /\ [][NextDemo]_vars

(***************************************************************************)
(* Creating the virtual machine: JavaVM::new (lib.rs:336-356),             *)
(* Error::from_ffi (lib.rs:968-974) and latest_jvm_version                 *)
(* (lib.rs:247-274).  The runtime is a set of interface versions it        *)
(* supports, fixed for the process, and the fact that a virtual machine    *)
(* exists in the process; it answers JNI_GetDefaultJavaVMInitArgs with     *)
(* JNI_OK for a supported version and JNI_EVERSION otherwise, and it       *)
(* answers JNI_CreateJavaVM with one of the status codes of jni.h, with    *)
(* JNI_OK only for a supported version and only while no virtual machine   *)
(* exists in the process.                                                  *)
(***************************************************************************)
JNI_OK == 0

JNI_ERR == -1

JNI_EDETACHED == -2

JNI_EVERSION == -3

JNI_ENOMEM == -4

JNI_EEXIST == -5

JNI_EINVAL == -6

JNIError ==
    {JNI_OK, JNI_ERR, JNI_EDETACHED, JNI_EVERSION, JNI_ENOMEM, JNI_EEXIST,
     JNI_EINVAL}

V11 == 65537

V12 == 65538

V14 == 65540

V15 == 65541

V16 == 65542

V17 == 65543

V18 == 65544

Version == {V11, V12, V14, V15, V16, V17, V18}

\* The number of calls of JavaVM::new in a run.
MaxNew == 3

\* Error::UnsupportedVersion, Error::OutOfMemory, Error::FFIError(code)
VmError(variant, code) == [e |-> variant, code |-> code]

\* A variant of from_ffi that takes "already created" for a success of an
\* earlier call and reports it as JNI_OK.
from_ffi_Lenient(code) ==
    CASE code = JNI_EVERSION -> VmError("UnsupportedVersion", 0)
      [] code = JNI_ENOMEM   -> VmError("OutOfMemory", 0)
      [] code = JNI_EEXIST   -> VmError("FFIError", JNI_OK)
      [] OTHER               -> VmError("FFIError", code)

from_ffi(code) ==
    CASE code = JNI_EVERSION -> VmError("UnsupportedVersion", 0)
      [] code = JNI_ENOMEM   -> VmError("OutOfMemory", 0)
      [] OTHER               -> VmError("FFIError", code)

\* A variant of JavaVM_new's result that builds a JavaVM also when the
\* runtime says one exists already.
NewResult_ExistIsOk(status) ==
    IF status = JNI_OK \/ status = JNI_EEXIST
      THEN [kind |-> "Ok", err |-> VmError("", 0)]
      ELSE [kind |-> "Err", err |-> from_ffi(status)]

\* if status == JNI_OK { Ok(JavaVM { .. }) } else { Err(from_ffi(status)) }
\* (lib.rs:347-354)
NewResult(status) ==
    IF status = JNI_OK
      THEN [kind |-> "Ok", err |-> VmError("", 0)]
      ELSE [kind |-> "Err", err |-> from_ffi(status)]

\* What JNI_CreateJavaVM may answer.
CreateStatus(version) ==
    {c \in JNIError :
        c = JNI_OK => (~vm.created /\ version \in vm.supported)}

\* What JNI_GetDefaultJavaVMInitArgs answers.
GetDefaultJavaVMInitArgs(version) ==
    IF version \in vm.supported THEN JNI_OK ELSE JNI_EVERSION

InitVM ==
    /\ stack = <<>>
    /\ pending = FALSE
    /\ thrown = <<>>
    /\ ret = NoRes
    /\ outcome = NoRes
    /\ held = [class |-> Null, object |-> Null]
    /\ h = [NewOp("none") EXCEPT !.raises = 0]
    /\ codec = CodecIdle
    /\ ord = OrdIdle
    /\ shapes = SigIdle
    /\ java = JavaIdle
    /\ \E sup \in SUBSET Version :
         vm = [pc |-> "ready", supported |-> sup, created |-> FALSE,
               news |-> 0, vms |-> 0, before |-> 0, op |-> "none",
               status |-> JNI_OK, result |-> NewResult(JNI_ERR),
               cur |-> 0, probed |-> {}, found |-> 0]

\* JavaVM::new(options) with options.version one of Version.
JavaVM_new ==
    /\ vm.pc = "ready"
    /\ vm.news < MaxNew
    /\ \E version \in Version :
         \E status \in CreateStatus(version) :
            LET r == NewResult(status)
            IN vm' = [vm EXCEPT !.op = "new",
                                !.news = @ + 1,
                                !.before = vm.vms,
                                !.status = status,
                                !.result = r,
                                !.created = @ \/ status = JNI_OK,
                                !.vms = IF r.kind = "Ok" THEN @ + 1 ELSE @]
    /\ UNCHANGED <<stack, pending, thrown, ret, outcome, held, h, codec, ord,
                   shapes, java>>

\* for version in (Version::V11 as u32 .. Version::V18 as u32).rev()
\* (lib.rs:253): the first version of the reversed half-open range.
LatestBegin ==
    /\ vm.pc = "ready"
    /\ vm' = [vm EXCEPT !.pc = "probe", !.op = "latest", !.cur = V18 - 1,
                        !.probed = {}, !.found = 0]
    /\ UNCHANGED <<stack, pending, thrown, ret, outcome, held, h, codec, ord,
                   shapes, java>>

\* One turn of the loop (lib.rs:253-268), or its end (lib.rs:273).
LatestProbe ==
    /\ vm.pc = "probe"
    /\ IF vm.cur < V11
         THEN vm' = [vm EXCEPT !.pc = "ready", !.found = 0]
         ELSE IF GetDefaultJavaVMInitArgs(vm.cur) = JNI_OK
           THEN vm' = [vm EXCEPT !.pc = "ready", !.found = vm.cur,
                                 !.probed = @ \cup {vm.cur}]
           ELSE vm' = [vm EXCEPT !.cur = @ - 1, !.probed = @ \cup {vm.cur}]
    /\ UNCHANGED <<stack, pending, thrown, ret, outcome, held, h, codec, ord,
                   shapes, java>>

NextVM ==
    \/ JavaVM_new
    \/ LatestBegin
    \/ LatestProbe

SpecVM == InitVM /\ [][NextVM]_vars

(***************************************************************************)
(* Options (lib.rs:86-216) and Classpath (lib.rs:278-322).  An option      *)
(* string is a sequence of fragments: "-Xms" and the size, the classpath   *)
(* prefix and each path followed by its separator, a custom string.        *)
(* vm.o is the Options value, vm.args the JavaVMInitArgs build returned.   *)
(***************************************************************************)
MaxCustom == 2

HeapSizes == {0, 1, 64}

CustomArgs == {"-verbose:gc", "-Xcheck:jni"}

Paths == {"examples"}

\* Options::new() (lib.rs:103-114)
Options_new ==
    [version |-> V11, classpath |-> <<>>, initial_heap_size |-> 0,
     max_heap_size |-> 0, ignore_unrecognised |-> TRUE, custom |-> <<>>,
     options |-> <<>>]

\* Classpath::build (lib.rs:307-321) on a Unix family system.
RECURSIVE Classpath_build(_, _)
Classpath_build(paths, string) ==
    IF paths = <<>> THEN string
    ELSE Classpath_build(Tail(paths), string \o <<Head(paths), ":">>)

\* add_option (lib.rs:205-215)
add_option(o, option) == [o EXCEPT !.options = Append(@, option)]

\* while let Some(option) = self.custom.pop() { self.add_option(option); }
\* (lib.rs:191-193)
RECURSIVE PopCustom(_)
PopCustom(o) ==
    IF o.custom = <<>> THEN o
    ELSE PopCustom(add_option(
            [o EXCEPT !.custom = SubSeq(@, 1, Len(@) - 1)],
            <<o.custom[Len(o.custom)]>>))

\* A variant of build that gives the heap options also for a size of 0.
build_HeapAlways(o) ==
    LET o1 == add_option(o, <<"-Xms", o.initial_heap_size>>)
        o2 == add_option(o1, <<"-Xmx", o1.max_heap_size>>)
        o3 == add_option(o2, Classpath_build(o2.classpath, <<"-Djava.class.path=">>))
        o4 == PopCustom(o3)
    IN [o |-> o4,
        args |-> [version |-> o4.version, nOptions |-> Len(o4.options),
                  options |-> o4.options,
                  ignoreUnrecognized |->
                      IF o4.ignore_unrecognised THEN JNI_TRUE ELSE JNI_FALSE]]

\* Options::build (lib.rs:168-201): the Options afterwards and the
\* JavaVMInitArgs returned.
build(o) ==
    LET o1 == IF o.initial_heap_size > 0
                THEN add_option(o, <<"-Xms", o.initial_heap_size>>) ELSE o
        o2 == IF o1.max_heap_size > 0
                THEN add_option(o1, <<"-Xmx", o1.max_heap_size>>) ELSE o1
        o3 == add_option(o2, Classpath_build(o2.classpath, <<"-Djava.class.path=">>))
        o4 == PopCustom(o3)
    IN [o |-> o4,
        args |-> [version |-> o4.version, nOptions |-> Len(o4.options),
                  options |-> o4.options,
                  ignoreUnrecognized |->
                      IF o4.ignore_unrecognised THEN JNI_TRUE ELSE JNI_FALSE]]

InitOptions ==
    /\ stack = <<>>
    /\ pending = FALSE
    /\ thrown = <<>>
    /\ ret = NoRes
    /\ outcome = NoRes
    /\ held = [class |-> Null, object |-> Null]
    /\ h = [NewOp("none") EXCEPT !.raises = 0]
    /\ codec = CodecIdle
    /\ ord = OrdIdle
    /\ shapes = SigIdle
    /\ java = JavaIdle
    /\ vm = [pc |-> "options", o |-> Options_new, given |-> Options_new,
             args |-> [version |-> V11, nOptions |-> 0, options |-> <<>>,
                       ignoreUnrecognized |-> JNI_TRUE]]

\* Options::initial_heap_size (lib.rs:132-135)
OptionsInitialHeapSize ==
    /\ vm.pc = "options"
    /\ \E size \in HeapSizes :
         vm' = [vm EXCEPT !.o.initial_heap_size = size]
    /\ UNCHANGED <<stack, pending, thrown, ret, outcome, held, h, codec, ord,
                   shapes, java>>

\* Options::max_heap_size (lib.rs:140-143)
OptionsMaxHeapSize ==
    /\ vm.pc = "options"
    /\ \E size \in HeapSizes :
         vm' = [vm EXCEPT !.o.max_heap_size = size]
    /\ UNCHANGED <<stack, pending, thrown, ret, outcome, held, h, codec, ord,
                   shapes, java>>

\* Options::classpath with Classpath::new().add(path) (lib.rs:124-127)
OptionsClasspath ==
    /\ vm.pc = "options"
    /\ \E path \in Paths :
         vm' = [vm EXCEPT !.o.classpath = <<path>>]
    /\ UNCHANGED <<stack, pending, thrown, ret, outcome, held, h, codec, ord,
                   shapes, java>>

\* Options::ignore_unrecognized_arguments (lib.rs:147-150)
OptionsIgnoreUnrecognized ==
    /\ vm.pc = "options"
    /\ \E flag \in BOOLEAN :
         vm' = [vm EXCEPT !.o.ignore_unrecognised = flag]
    /\ UNCHANGED <<stack, pending, thrown, ret, outcome, held, h, codec, ord,
                   shapes, java>>

\* Options::custom (lib.rs:154-157)
OptionsCustom ==
    /\ vm.pc = "options"
    /\ Len(vm.o.custom) < MaxCustom
    /\ \E arg \in CustomArgs :
         vm' = [vm EXCEPT !.o.custom = Append(@, arg)]
    /\ UNCHANGED <<stack, pending, thrown, ret, outcome, held, h, codec, ord,
                   shapes, java>>

\* let mut args = options.build(); (lib.rs:339)
OptionsBuild ==
    /\ vm.pc = "options"
    /\ LET r == build(vm.o)
       IN vm' = [vm EXCEPT !.pc = "built", !.given = vm.o, !.o = r.o,
                           !.args = r.args]
    /\ UNCHANGED <<stack, pending, thrown, ret, outcome, held, h, codec, ord,
                   shapes, java>>

NextOptions ==
    \/ OptionsInitialHeapSize
    \/ OptionsMaxHeapSize
    \/ OptionsClasspath
    \/ OptionsIgnoreUnrecognized
    \/ OptionsCustom
    \/ OptionsBuild

SpecOptions == InitOptions /\ [][NextOptions]_vars

(***************************************************************************)
(* The recursion of Error::from_exception (lib.rs:991-1005) through        *)
(* Object::call (lib.rs:632-673) and Error::not_found (lib.rs:976-987),    *)
(* with a runtime that may raise from every lookup and every call of       *)
(* getMessage.  java.depth is the number of translations that are waiting  *)
(* for a nested one; it is counted up to MaxDepth and stays there, deeper  *)
(* levels not being told apart.  A translation returns to its caller only  *)
(* at depth 0: a nested one returns into an Err that the unwrap of the     *)
(* enclosing translation (lib.rs:1000) turns into a panic.                 *)
(***************************************************************************)
MaxDepth == 8

Throwables == {NoSuchMethodError, RuntimeException, NoClassDefFoundError}

Deeper(d) == IF d < MaxDepth THEN d + 1 ELSE MaxDepth

InitTranslate ==
    /\ stack = <<>>
    /\ pending = FALSE
    /\ thrown = <<>>
    /\ ret = NoRes
    /\ outcome = NoRes
    /\ held = [class |-> Null, object |-> Null]
    /\ h = [NewOp("none") EXCEPT !.raises = 0]
    /\ codec = CodecIdle
    /\ ord = OrdIdle
    /\ shapes = SigIdle
    /\ vm = VmIdle
    /\ \E e \in Throwables :
         java = [pc |-> "ExceptionOccurred", depth |-> 0, flag |-> TRUE,
                 raised |-> e, obj |-> <<>>]

\* let obj = jvm.exception_obj(); (lib.rs:993)
TranslateOccurred ==
    /\ java.pc = "ExceptionOccurred"
    /\ java' = [java EXCEPT !.pc = "ExceptionClear", !.obj = java.raised]
    /\ UNCHANGED <<stack, pending, thrown, ret, outcome, held, h, codec, ord,
                   shapes, vm>>

\* jvm.clear_exception(); let name = obj.class().name(); (lib.rs:994-997)
TranslateClear ==
    /\ java.pc = "ExceptionClear"
    /\ java' = [java EXCEPT !.pc = "GetMethodID", !.flag = FALSE,
                            !.raised = <<>>]
    /\ UNCHANGED <<stack, pending, thrown, ret, outcome, held, h, codec, ord,
                   shapes, vm>>

\* The lookup of getMessage in obj.call (lib.rs:636-652): an id, or null
\* with or without an exception raised.
TranslateLookup ==
    /\ java.pc = "GetMethodID"
    /\ \/ java' = [java EXCEPT !.pc = "CallObjectMethodA"]
       \/ java' = [java EXCEPT !.pc = "not_found"]
       \/ \E e \in Throwables :
            java' = [java EXCEPT !.pc = "not_found", !.flag = TRUE,
                                 !.raised = e]
    /\ UNCHANGED <<stack, pending, thrown, ret, outcome, held, h, codec, ord,
                   shapes, vm>>

\* Error::not_found (lib.rs:977-986): a nested translation when the flag is
\* set; either way the call returns an Err, which the unwrap meets.
TranslateNotFound ==
    /\ java.pc = "not_found"
    /\ java' = IF has_exception(java.flag)
                 THEN [java EXCEPT !.pc = "ExceptionOccurred",
                                   !.depth = Deeper(@)]
                 ELSE [java EXCEPT !.pc = "panic"]
    /\ UNCHANGED <<stack, pending, thrown, ret, outcome, held, h, codec, ord,
                   shapes, vm>>

\* The dispatch of getMessage (lib.rs:660-665): it returns, or it throws.
TranslateDispatch ==
    /\ java.pc = "CallObjectMethodA"
    /\ \/ java' = [java EXCEPT !.pc = "ExceptionCheck"]
       \/ \E e \in Throwables :
            java' = [java EXCEPT !.pc = "ExceptionCheck", !.flag = TRUE,
                                 !.raised = e]
    /\ UNCHANGED <<stack, pending, thrown, ret, outcome, held, h, codec, ord,
                   shapes, vm>>

\* if self.jvm.has_exception() { Err(Error::from_exception(..)) } else
\* { Ok(..) } (lib.rs:668-672)
TranslateCheck ==
    /\ java.pc = "ExceptionCheck"
    /\ java' = IF has_exception(java.flag)
                 THEN [java EXCEPT !.pc = "ExceptionOccurred",
                                   !.depth = Deeper(@)]
                 ELSE [java EXCEPT !.pc = "return"]
    /\ UNCHANGED <<stack, pending, thrown, ret, outcome, held, h, codec, ord,
                   shapes, vm>>

\* Error::OutOfMemory // for now (lib.rs:1004): back in the caller at depth
\* 0, back in an unwrap of an Err otherwise.
TranslateReturn ==
    /\ java.pc = "return"
    /\ java' = [java EXCEPT !.pc = IF java.depth = 0 THEN "done" ELSE "panic"]
    /\ UNCHANGED <<stack, pending, thrown, ret, outcome, held, h, codec, ord,
                   shapes, vm>>

NextTranslate ==
    \/ TranslateOccurred
    \/ TranslateClear
    \/ TranslateLookup
    \/ TranslateNotFound
    \/ TranslateDispatch
    \/ TranslateCheck
    \/ TranslateReturn

\* Every step of the translation is taken when it can be.
SpecTranslate ==
    InitTranslate /\ [][NextTranslate]_vars /\ WF_vars(NextTranslate)

(***************************************************************************)
(* Properties.                                                             *)
(***************************************************************************)
\* The last top-level operation is over: it returned, panicked or crashed.
Ended == stack = <<>> /\ outcome.kind # "None"

\* The last top-level operation returned to its caller.
Returned == stack = <<>> /\ outcome.kind \in {"Ok", "Err"}

MemberOps == {"instantiate", "call_static", "call"}

\* C1: when the method or constructor a top-level Object.call,
\* Class.call_static or Class.instantiate dispatched threw, the operation
\* returns Err(Error::Exception(info)) with info.name() the class name of
\* the thrown object.
C1_ThrownBecomesException ==
    (Returned /\ h.op \in MemberOps /\ h.dispatchThrew # <<>>)
        => /\ outcome.kind = "Err"
           /\ outcome.err.e = "Exception"
           /\ outcome.err.info.name = h.dispatchThrew

\* C2: whenever Object.call, Class.call_static, Class.instantiate or
\* JavaVM::class returns after one of the runtime functions it invoked
\* raised an exception, the pending flag is false at that moment.
C2_FlagClearAtReturn ==
    (Returned /\ h.op \in MemberOps \cup {"class"} /\ h.threw) => ~pending

\* An operation whose dispatch threw has returned its error.
C2_Witness ==
    /\ Returned
    /\ h.op = "call"
    /\ h.dispatchThrew # <<>>
    /\ outcome.kind = "Err"
    /\ ~pending

\* C3: no runtime function other than ExceptionCheck, ExceptionOccurred
\* and ExceptionClear is invoked while the pending flag is set.
C3_NoCallWhilePending == ~h.ubCall

\* C4: the raw result of a dispatch is decoded only after the pending flag
\* was queried, after that dispatch, and found false; Class.instantiate
\* returns its Object only after that query; every operation that
\* dispatched and returned made the query after its last dispatch.
C4_QueryBeforeDecode ==
    /\ (stack # <<>> /\ Top.pc = "decode") => (h.queried /\ ~pending)
    /\ (Returned /\ h.op = "instantiate" /\ outcome.kind = "Ok")
          => (h.queried /\ ~pending)
    /\ (Returned /\ h.op \in MemberOps /\ h.dispatched) => h.queried

\* A non-zero raw result is about to be decoded, the flag queried.
C4_Witness ==
    /\ stack # <<>>
    /\ Top.fn = "call"
    /\ Top.pc = "decode"
    /\ Top.cell # ZeroCell
    /\ h.queried

\* C5: when the member lookup of Object.call, Class.call_static or
\* Class.instantiate gives null, having raised no exception and with none
\* pending when it was invoked, the operation returns
\* Err(Error::NotFound(None)).
C5_AbsentMemberIsNotFoundNone ==
    (Ended /\ h.op \in MemberOps /\ h.lookupNull /\ ~h.lookupRaised
           /\ h.lookupClean)
        => outcome = ResErr(Err("NotFound", FALSE, NoInfo))

\* Object.call came back with NotFound(None) from a lookup that raised
\* nothing.
C5_Witness ==
    /\ Returned
    /\ h.op = "call"
    /\ h.lookupNull
    /\ ~h.lookupRaised
    /\ outcome = ResErr(Err("NotFound", FALSE, NoInfo))

\* The array-of-values entry of each return type's call group.
CallMethodA ==
    [Object  |-> "CallObjectMethodA",  Str    |-> "CallObjectMethodA",
     Boolean |-> "CallBooleanMethodA", Byte   |-> "CallByteMethodA",
     Char    |-> "CallCharMethodA",    Short  |-> "CallShortMethodA",
     Int     |-> "CallIntMethodA",     Long   |-> "CallLongMethodA",
     Float   |-> "CallFloatMethodA",   Double |-> "CallDoubleMethodA",
     Void    |-> "CallVoidMethodA"]

CallStaticMethodA ==
    [Object  |-> "CallStaticObjectMethodA",  Str    |-> "CallStaticObjectMethodA",
     Boolean |-> "CallStaticBooleanMethodA", Byte   |-> "CallStaticByteMethodA",
     Char    |-> "CallStaticCharMethodA",    Short  |-> "CallStaticShortMethodA",
     Int     |-> "CallStaticIntMethodA",     Long   |-> "CallStaticLongMethodA",
     Float   |-> "CallStaticFloatMethodA",   Double |-> "CallStaticDoubleMethodA",
     Void    |-> "CallStaticVoidMethodA"]

\* C6: the entry a dispatch of Object.call invokes is Call<T>MethodA for
\* its return type T, and the entry a dispatch of Class.call_static invokes
\* is CallStatic<T>MethodA, Object and Str both taking the Object group.
C6_DispatchIsArrayForm ==
    /\ h.entryBase = "CallObjectMethodA"
          => h.entry = CallMethodA[h.entryType.t]
    /\ h.entryBase = "CallStaticObjectMethodA"
          => h.entry = CallStaticMethodA[h.entryType.t]

\* A static call returning Double went through CallStaticDoubleMethodA.
C6_Witness ==
    /\ h.entryBase = "CallStaticObjectMethodA"
    /\ h.entryType.t = "Double"
    /\ h.entry = "CallStaticDoubleMethodA"

\* The number of Type variants.
NumVariants == Cardinality(TypeTags)

\* Every ordinal below n is the offset of some Type.
Fills(n) == \A k \in 0..(n - 1) : \E x \in Types : offset(x) = k

\* C7 as claimed: Type::offset maps the variants to distinct ordinals that
\* fill [0, N), N the number of variants.
C7_OffsetIsBijection ==
    ord.pc = "ordinals"
        => /\ (ord.a.t # ord.b.t => ord.oa # ord.ob)
           /\ ord.oa \in 0..(NumVariants - 1)
           /\ Fills(NumVariants)

\* C7 as amended: the ordinals fill [0, N - 1) with no gap, and the only
\* two variants that share one are Str and Object, at 0.
C7_OffsetSharesOnlyObjectGroup ==
    ord.pc = "ordinals"
        => /\ ((ord.a.t # ord.b.t /\ ord.oa = ord.ob)
                  => ({ord.a.t, ord.b.t} = {"Str", "Object"} /\ ord.oa = 0))
           /\ ord.oa \in 0..(NumVariants - 2)
           /\ Fills(NumVariants - 1)

\* The ordinals of Str and of an Object type were taken, and are equal.
C7_Witness ==
    /\ ord.pc = "ordinals"
    /\ ord.a.t = "Str"
    /\ ord.b.t = "Object"
    /\ ord.oa = ord.ob

\* C8: decoding the cell a primitive Value was encoded to, under the
\* Value's own type tag, gives the Value back.
C8_CodecRoundTrip == codec.pc = "out" => codec.out = codec.v

\* C9: every top-level operation whose lookup gave null or whose dispatch
\* threw, and in which no runtime function was invoked with an exception
\* pending, ends by returning an Err to its caller.
C9_FailuresReturnErr ==
    (Ended /\ h.op \in MemberOps \cup {"class"} /\ ~h.ubCall
           /\ (h.lookupNull \/ h.dispatchThrew # <<>>))
        => outcome.kind = "Err"

\* C10: JavaVM::class returns Ok(Class) around the runtime's reference when
\* FindClass gave one, and Err(Error::NotFound(_)) when it gave null.
C10_ClassLookupResult ==
    (Returned /\ h.op = "class")
        => IF h.lookupNull
             THEN outcome.kind = "Err" /\ outcome.err.e = "NotFound"
             ELSE outcome = ClassResult(h.lookupRaw)

\* The code the claim gives each kind of argument or return type.
ClaimedCode ==
    [Boolean |-> <<"Z">>, Byte |-> <<"B">>, Char |-> <<"C">>, Short |-> <<"S">>,
     Int |-> <<"I">>, Long |-> <<"J">>, Float |-> <<"F">>, Double |-> <<"D">>,
     Str |-> <<"L", "java/lang/String", ";">>, Void |-> <<"V">>]

\* The claimed codes of the arguments from i on, in argument order; the
\* name of an object argument's class is the text the runtime gave.
RECURSIVE ClaimedArgs(_, _)
ClaimedArgs(args, i) ==
    IF i > Len(args) THEN <<>>
    ELSE (IF args[i].t = "Object" THEN <<"L">> \o RuntimeText \o <<";">>
          ELSE ClaimedCode[args[i].t])
           \o ClaimedArgs(args, i + 1)

ClaimedSignature(args, kind) ==
    <<"(">> \o ClaimedArgs(args, 1) \o <<")">>
            \o (IF kind.t = "Object" THEN <<"L", kind.cls, ";">>
                ELSE ClaimedCode[kind.t])

\* The arguments, each object with the name the runtime gave for its class.
Reported(args) ==
    [i \in 1..Len(args) |->
        IF args[i].t = "Object" THEN [args[i] EXCEPT !.s = RuntimeText]
        ELSE args[i]]

\* The top frame is a member operation whose signature has just been built.
SignatureBuilt ==
    /\ stack # <<>>
    /\ Top.fn \in MemberOps
    /\ Top.pc \in {"GetMethodID", "GetStaticMethodID"}
    /\ ret.kind = "Ok"
    /\ ret.val.t = "Str"

ArgType(v) == <<v.t, v.s>>

ArgTypes(args) ==
    [i \in 1..Len(args) |->
        IF args[i].t = "Object" THEN ArgType(args[i]) ELSE <<args[i].t>>]

\* C12 as claimed: two call shapes that differ in the argument type list
\* or in the return Type never get the same signature.
C12_SignatureInjective ==
    (shapes.pc = "signatures" /\ shapes.sa = shapes.sb)
        => (ArgTypes(shapes.a.args) = ArgTypes(shapes.b.args)
            /\ shapes.a.rt = shapes.b.rt)

\* Str and Object("java/lang/String") taken as one return type.
SameReturn(k1, k2) ==
    \/ k1 = k2
    \/ {k1, k2} = {Ty("Str"), ObjectTy("java/lang/String")}

\* C12 as amended: two call shapes get the same signature only when their
\* argument type lists are equal and their return Types are equal or are
\* Str and Object("java/lang/String").
C12_SignatureInjectiveUpToString ==
    (shapes.pc = "signatures" /\ shapes.sa = shapes.sb)
        => (ArgTypes(shapes.a.args) = ArgTypes(shapes.b.args)
            /\ SameReturn(shapes.a.rt, shapes.b.rt))

\* Two shapes that differ only in Str against Object("java/lang/String")
\* as return type got the same signature.
C12_Witness ==
    /\ shapes.pc = "signatures"
    /\ shapes.a.rt = Ty("Str")
    /\ shapes.b.rt = ObjectTy("java/lang/String")
    /\ shapes.a.args = shapes.b.args
    /\ Len(shapes.a.args) = 2
    /\ shapes.sa = shapes.sb

\* The frames of member operations whose arguments have been encoded: the
\* next step, or an earlier one, hands them to the runtime.
Delivering(f) ==
    /\ f.fn \in MemberOps
    /\ f.pc \in {"dispatch", "NewObjectA", "ExceptionCheck", "err", "decode", "str"}

\* C13: no call entry and no object-allocation entry is invoked for an
\* argument list that holds Value::Void: an operation given one never gets
\* past the encoding of its arguments.
C13_VoidNeverDelivered ==
    /\ \A i \in 1..Len(stack) :
          Delivering(stack[i])
              => (~HasVoid(stack[i].args)
                  /\ Len(stack[i].jargs) = Len(stack[i].args))
    /\ h.voidArg => ~h.dispatched

\* Object.call, given a Void after a Str, found its method and panicked
\* before any dispatch.
C13_Witness ==
    /\ Ended
    /\ h.op = "call"
    /\ h.voidArg
    /\ ~h.lookupNull
    /\ ~h.dispatched
    /\ outcome.kind = "Panic"

\* C14: Object.call and Class.call_static, given Value::Void as an argument,
\* return an Err, also when the lookup finds a method.
C14_VoidArgumentIsErr ==
    (Ended /\ h.op \in {"call", "call_static"} /\ h.voidArg)
        => outcome.kind = "Err"

\* C15: Object.call and Class.call_static that return Ok return a value of
\* the variant of the requested return type (the type of the operation's own
\* dispatch, the last one of a run that returns Ok); for Void the value is
\* Value::Void whatever the raw result cell holds.
C15_ResultVariantIsReturnType ==
    (Returned /\ h.op \in {"call", "call_static"} /\ outcome.kind = "Ok")
        => /\ h.dispatched
           /\ outcome.val.t = h.entryType.t
           /\ h.entryType.t = "Void" => outcome.val = VoidVal

\* A call with return type Void whose raw result cell was not zero returned
\* Ok(Value::Void).
C15_Witness ==
    /\ Returned
    /\ h.op = "call"
    /\ outcome.kind = "Ok"
    /\ h.entryType.t = "Void"
    /\ ~h.rawZero
    /\ outcome.val = VoidVal

\* C16: against a runtime that behaves, the runtime receives the Int
\* arguments given, in order; the getter called on a handle returns the
\* counter of the object that handle was constructed as, i.e. the
\* constructor's argument plus the increments made through that handle; and
\* the static add returns the sum of its arguments.  In particular
\* construct with 5, increment once, read gives Int(6), and add of 1 and 9
\* gives Int(10).
C16_IntsPassUnchanged ==
    /\ java.pc = "ready" =>
          /\ Len(java.recv) = Len(java.given)
          /\ \A i \in 1..Len(java.given) : java.recv[i] = java.given[i].n
          /\ \A k \in 1..Len(java.handles) :
                java.heap[Deref(java.handles[k])] = java.expect[k]
    /\ (java.pc = "ready" /\ java.op = "current") =>
          /\ java.last = ResOk(NumVal("Int", java.expect[java.who]))
          /\ (java.given = <<>> /\ java.incs[java.who] = 1
              /\ Add32(java.expect[java.who], -1) = 5)
                => java.last = ResOk(NumVal("Int", 6))
    /\ (java.pc = "ready" /\ java.op = "add") =>
          /\ java.last = ResOk(NumVal("Int", Add32(java.given[1].n, java.given[2].n)))
          /\ (java.given = <<NumVal("Int", 1), NumVal("Int", 9)>>)
                => java.last = ResOk(NumVal("Int", 10))

\* The second of two objects was constructed with 5, incremented once and
\* read, the first one holding another value, and the upper half of the
\* result register was not zero.
C16_Witness ==
    /\ java.pc = "ready"
    /\ java.op = "current"
    /\ java.who = 2
    /\ java.incs = <<0, 1>>
    /\ java.expect = <<70000, 6>>
    /\ java.cell[1] # 0
    /\ java.last = ResOk(NumVal("Int", 6))

\* JavaVM::new has returned.
NewReturned == vm.pc = "ready" /\ vm.op = "new"

\* C17: JavaVM::new returns Ok exactly when the creation status is JNI_OK;
\* JNI_EVERSION gives UnsupportedVersion, JNI_ENOMEM gives OutOfMemory and
\* every other status gives FFIError with that status.
C17_StatusMapsToResult ==
    NewReturned =>
        /\ vm.result.kind = "Ok" <=> vm.status = JNI_OK
        /\ vm.status = JNI_EVERSION
              => vm.result.err = VmError("UnsupportedVersion", 0)
        /\ vm.status = JNI_ENOMEM
              => vm.result.err = VmError("OutOfMemory", 0)
        /\ vm.status \notin {JNI_OK, JNI_EVERSION, JNI_ENOMEM}
              => vm.result.err = VmError("FFIError", vm.status)

\* A creation the runtime refused with JNI_EINVAL returned
\* Err(FFIError(JNI_EINVAL)).
C17_Witness ==
    /\ NewReturned
    /\ vm.status = JNI_EINVAL
    /\ vm.result.kind = "Err"
    /\ vm.result.err = VmError("FFIError", JNI_EINVAL)

LatestReturned == vm.pc = "ready" /\ vm.op = "latest"

\* The highest member of a non-empty set of versions.
Highest(S) == CHOOSE v \in S : \A w \in S : w <= v

\* C19: latest_jvm_version returns the highest supported version among
\* V11 .. V18, probes only those versions, and returns None (0 here) only
\* when none is supported.
C19_LatestIsHighestSupported ==
    /\ vm.pc # "idle" => vm.probed \subseteq Version
    /\ LatestReturned =>
          vm.found = IF vm.supported = {} THEN 0 ELSE Highest(vm.supported)

\* C20: ExceptionClear is never invoked more often than ExceptionOccurred
\* (each clearing follows its fetch), and an operation that returns an error
\* after fetching a thrown object while the flag was set has invoked
\* ExceptionClear exactly once.
C20_DrainedExactlyOnce ==
    /\ h.clears <= h.fetches
    /\ h.fetches <= h.clears + 1
    /\ (Returned /\ outcome.kind = "Err" /\ h.fetchedSet) => h.clears = 1

\* Object.call dispatched, the method threw, and the call returned an error
\* after one fetch and one clearing; nothing is pending.
C20_Witness ==
    /\ Returned
    /\ h.op = "call"
    /\ outcome.kind = "Err"
    /\ h.dispatchThrew # <<>>
    /\ h.fetchedSet
    /\ h.fetches = 1
    /\ h.clears = 1
    /\ ~pending

C22_QueryBeforeTranslation ==
    h.lookupNull
        => /\ h.fetches >= 1 => h.fetchAsked
           /\ (Returned /\ outcome.kind = "Err") => h.asked

\* C23: a member operation whose lookup gave null and raised returns
\* NotFound(Some(info)), info naming the exception the lookup raised, and
\* leaves nothing pending.
C23_NotFoundCarriesException ==
    (Returned /\ h.op \in MemberOps /\ h.lookupNull /\ h.lookupRaised
       /\ ~h.ubCall)
        => /\ outcome.kind = "Err"
           /\ outcome.err.e = "NotFound"
           /\ outcome.err.some
           /\ outcome.err.info.name = NoSuchMethodError
           /\ ~pending

\* C24: an operation that aborts on a Value::Void argument has allocated
\* no runtime string for an earlier Str argument of the same list.
C24_VoidAbortLeavesRuntimeUntouched ==
    (Ended /\ h.op \in MemberOps /\ h.voidArg /\ outcome.kind = "Panic"
       /\ ~h.ubCall)
        => h.allocs = 0

\* The references NewStringUTF gave the operation that it has not released:
\* all of them, the library invoking no function that releases one.
UnreleasedStrings == h.allocs

\* C27: when instantiate, call_static or call returns, every runtime string
\* it allocated for a Str argument has been released.
C27_ArgumentStringsReleased ==
    (Returned /\ h.op \in MemberOps /\ ~h.ubCall) => UnreleasedStrings = 0

\* C30: outside convert_string no character buffer is held: every buffer
\* GetStringUTFChars gave has been released when control leaves
\* convert_string, also when the bytes are not valid UTF-8.
C30_BuffersReleased ==
    (~h.ubCall /\ \A i \in 1..Len(stack) : stack[i].fn # "convert_string")
        => h.buffers = 0

\* The 64-bit two's complement of n, -2^31 <= n < 2^31: for a negative n
\* the complement of -n - 1 in every bit.
TwosComplement(n) ==
    IF n >= 0 THEN <<0, 0, n \div LimbBase, n % LimbBase>>
    ELSE LET m == 0 - (n + 1)
         IN <<65535, 65535, 65535 - (m \div LimbBase), 65535 - (m % LimbBase)>>

\* The cell the claim gives a primitive Value.
ClaimedCell(v) ==
    CASE v.t \in {"Byte", "Short", "Int"} -> TwosComplement(v.n)
      [] v.t = "Long"                     -> v.w
      [] v.t \in {"Boolean", "Char"}      -> <<0, 0, v.n \div LimbBase, v.n % LimbBase>>
      [] v.t = "Float"                    -> <<0, 0, v.w[3], v.w[4]>>
      [] v.t = "Double"                   -> v.w

\* C25: a primitive Value is encoded as its sign extension (Byte, Short,
\* Int, Long), as 0 or 1 (Boolean), as its zero-extended code point (Char),
\* or as its IEEE bit pattern in the low 32 or 64 bits (Float, Double).
C25_EncodingIsBitPattern ==
    codec.pc \in {"cell", "out"} => codec.cell = ClaimedCell(codec.v)

\* The low bits of a cell that the claim lets a primitive Type depend on.
DeclaredBits(c, kind) ==
    CASE kind.t \in {"Boolean", "Byte"} -> <<c[4] % 256>>
      [] kind.t \in {"Char", "Short"}   -> <<c[4]>>
      [] kind.t \in {"Int", "Float"}    -> <<c[3], c[4]>>
      [] kind.t \in {"Long", "Double"}  -> c

\* C26: two cells that agree on the bits of the declared width of a
\* primitive Type decode to the same Value under it.
C26_DecodeReadsDeclaredWidth ==
    (codec.pc = "values"
       /\ DeclaredBits(codec.a, codec.kind) = DeclaredBits(codec.b, codec.kind))
        => codec.outa = codec.outb

\* Two cells that differ in every limb but agree on the low 8 bits were
\* decoded as Byte to the same value, -1.
C26_Witness ==
    /\ codec.pc = "values"
    /\ codec.kind = Ty("Byte")
    /\ codec.a = <<0, 0, 0, 255>>
    /\ codec.b = <<65535, 1, 65535, 33023>>
    /\ codec.outa = NumVal("Byte", -1)
    /\ codec.outb = NumVal("Byte", -1)

\* How many members of the list equal, resp. begin with, a given fragment.
Occurrences(list, option) ==
    Cardinality({i \in 1..Len(list) : list[i] = option})

Beginning(list, prefix) ==
    Cardinality({i \in 1..Len(list) : list[i][1] = prefix})

\* C28: the list build produces holds "-Xms<n>" exactly when the initial
\* heap size n is above 0, "-Xmx<n>" exactly when the maximum heap size n
\* is above 0, one classpath option, and every custom option as often as
\* it was given; nOptions is the length of the list and the custom list is
\* empty afterwards.
C28_BuildProducesOptions ==
    vm.pc = "built" =>
        /\ Beginning(vm.args.options, "-Xms")
              = (IF vm.given.initial_heap_size > 0 THEN 1 ELSE 0)
        /\ vm.given.initial_heap_size > 0
              => Occurrences(vm.args.options,
                             <<"-Xms", vm.given.initial_heap_size>>) = 1
        /\ Beginning(vm.args.options, "-Xmx")
              = (IF vm.given.max_heap_size > 0 THEN 1 ELSE 0)
        /\ vm.given.max_heap_size > 0
              => Occurrences(vm.args.options,
                             <<"-Xmx", vm.given.max_heap_size>>) = 1
        /\ Beginning(vm.args.options, "-Djava.class.path=") = 1
        /\ \A c \in CustomArgs :
              Occurrences(vm.args.options, <<c>>)
                  = Cardinality({i \in 1..Len(vm.given.custom) :
                                    vm.given.custom[i] = c})
        /\ vm.args.nOptions = Len(vm.args.options)
        /\ Len(vm.args.options)
              = Beginning(vm.args.options, "-Xms")
                + Beginning(vm.args.options, "-Xmx") + 1 + Len(vm.given.custom)
        /\ vm.o.custom = <<>>

\* Built with no initial size, a maximum of 64 and two custom options: the
\* list is the maximum, the classpath and the custom options, last first.
C28_Witness ==
    /\ vm.pc = "built"
    /\ vm.given.initial_heap_size = 0
    /\ vm.given.max_heap_size = 64
    /\ vm.given.custom = <<"-verbose:gc", "-Xcheck:jni">>
    /\ vm.args.nOptions = 4
    /\ vm.args.options = <<(<<"-Xmx", 64>>),
                           (<<"-Djava.class.path=", "examples", ":">>),
                           (<<"-Xcheck:jni">>), (<<"-verbose:gc">>)>>

\* C29: every invocation of Error::from_exception eventually completes, by
\* returning or by a panic.
C29_TranslationCompletes == <>(java.pc \in {"done", "panic"})

=============================================================================
